---- MODULE Spec2Model ----
(***************************************************************************)
(* A model of haka_mqtt.reactor.Reactor: the reactor's three state         *)
(* variables, its preflight and in-flight queues, the send-path packet-id  *)
(* allocator, the write buffer, the keepalive deadlines and the tickets    *)
(* handed to the host.  Every public operation (start, stop, terminate,    *)
(* read, write, subscribe, unsubscribe, publish) and every deadline        *)
(* callback is one action; the private methods they call are operators     *)
(* from reactor records to reactor records, composed as the code calls     *)
(* them.                                                                   *)
(***************************************************************************)
EXTENDS Integers, Sequences, FiniteSets, TLC

\* Packet ids are 0 .. NumPacketIds-1 (the code's are 16 bit).
NumPacketIds == 2
\* With every operation enabled the host submits at most MaxTickets
\* subscribe/unsubscribe/publish requests, and an operation or inbound packet
\* that appends a record to preflight is taken while preflight is shorter
\* than MaxPreflight.
MaxTickets == 1
MaxPreflight == 1
\* The same two bounds for the send path taken alone.
MaxSendTickets == 2
MaxSendPreflight == 2
MaxKeepalivePreflight == 2
\* The same two bounds for launching alone.
MaxLaunchTickets == 2
MaxLaunchPreflight == 2
\* A packet encodes to PacketLen bytes, unless it is a publish of a large
\* payload.
PacketLen == 2
\* Reactor.__launch_packets: max_buf_size = 2**16, scaled to packets of
\* PacketLen bytes.
max_buf_size == 3
\* The length of a publish of a large payload.  An MQTT packet has up to
\* 2**28 - 1 bytes behind its fixed header, more than max_buf_size.
LargePacketLen == max_buf_size + 1

NoPacketId == 0 - 1
\* socket.send raising an error other than EWOULDBLOCK
SendError == 0 - 1

PacketIds == 0 .. (NumPacketIds - 1)

INACTIVE_STATES == {"init", "stopped", "error"}
ACTIVE_STATES == {"starting", "started", "stopping"}
INACTIVE_SOCK_STATES == {"stopped"}
ACTIVE_SOCKET_STATES ==
    {"name_resolution", "connecting", "handshake", "connected", "mute", "deaf"}
INACTIVE_MQTT_STATES == {"stopped"}
ACTIVE_MQTT_STATES == {"connack", "connected", "mute"}

VARIABLES
    state,                     \* Reactor.__state
    sock_state,                \* Reactor.__sock_state
    mqtt_state,                \* Reactor.__mqtt_state
    error,                     \* Reactor.__error ("None" or the error class)
    socket,                    \* Reactor.socket is not None
    clean_session,             \* ReactorProperties.clean_session
    keepalive_period,          \* ReactorProperties.keepalive_period
    preflight_queue,           \* Reactor.__preflight_queue
    inflight_queue,            \* Reactor.__inflight_queue, in insertion order
    send_path_packet_ids,      \* Reactor.__send_path_packet_ids
    wbuf,                      \* Reactor.__wbuf
    rbuf,                      \* Reactor.__rbuf: "empty", or what the bytes
                               \* in it are, "partial_header" (not yet a
                               \* fixed header) or "partial_body" (a fixed
                               \* header and not all of the body it announces)
    tickets,                   \* the tickets returned to the host, in order
    keepalive_due_deadline,    \* Reactor.__keepalive_due_deadline: "None",
                               \* "scheduled", or "expired" (it has fired and
                               \* the reactor still refers to it)
    keepalive_abort_deadline,  \* Reactor.__keepalive_abort_deadline, likewise
    pingreq_active,            \* Reactor.__pingreq_active
    ssl_want_read,             \* Reactor.__ssl_want_read
    ssl_want_write,            \* Reactor.__ssl_want_write
    name_resolution_future,    \* "None" or "pending"
    cancelled_callback,        \* what the name resolver does with the
                               \* callback of a future that is cancelled:
                               \* "inside" (it runs inside cancel()), or it
                               \* runs later, and then "pending" when such a
                               \* callback is still to run and "None" when
                               \* none is
    op,                        \* the last operation, its inputs, and the
                               \* SocketState it was called in
    fired,                     \* host callbacks fired by the last operation
    fired_in,                  \* ReactorState at each of these callbacks
    fired_closed,              \* whether at each of them the socket was
                               \* closed, the deadlines cancelled and the
                               \* buffers empty
    exc,                       \* exception the last operation raised, "None",
                               \* or "NoReturn" when it does not return
    launched,                  \* records launched by the last operation
    sent,                      \* bytes the socket took in the last operation
    start_preflight,           \* preflight as __start of the last operation left it
    pubrec_log,                \* packet ids of the accepted PUBRECs, in order
    pubrel_log                 \* packet ids of the launched PUBRELs, in order

vars == <<state, sock_state, mqtt_state, error, socket, clean_session,
          keepalive_period,
          preflight_queue, inflight_queue, send_path_packet_ids, wbuf, rbuf,
          tickets,
          keepalive_due_deadline, keepalive_abort_deadline, pingreq_active,
          ssl_want_read, ssl_want_write, name_resolution_future,
          cancelled_callback,
          op, fired, fired_in, fired_closed, exc, launched, sent, start_preflight, pubrec_log,
          pubrel_log>>

----------------------------------------------------------------------------
\* The reactor as a record; the operators below map records to records.

Cur ==
    [state |-> state, sock_state |-> sock_state, mqtt_state |-> mqtt_state,
     error |-> error, socket |-> socket,
     preflight_queue |-> preflight_queue, inflight_queue |-> inflight_queue,
     send_path_packet_ids |-> send_path_packet_ids, wbuf |-> wbuf,
     rbuf |-> rbuf,
     tickets |-> tickets,
     keepalive_due_deadline |-> keepalive_due_deadline,
     keepalive_abort_deadline |-> keepalive_abort_deadline,
     pingreq_active |-> pingreq_active,
     ssl_want_read |-> ssl_want_read, ssl_want_write |-> ssl_want_write,
     name_resolution_future |-> name_resolution_future,
     cancelled_callback |-> cancelled_callback,
     fired |-> <<>>, fired_in |-> <<>>, fired_closed |-> <<>>,
     exc |-> "None", launched |-> <<>>, sent |-> <<>>,
     start_preflight |-> <<>>,
     pubrec_log |-> pubrec_log, pubrel_log |-> pubrel_log]

\* The operation is called, no earlier call being still under way, and
\* leaves the reactor as r, the value of s.
Becomes(s, o) ==
    \E r \in {s} :
        /\ exc # "NoReturn"
        /\ state' = r.state
        /\ sock_state' = r.sock_state
        /\ mqtt_state' = r.mqtt_state
        /\ error' = r.error
        /\ socket' = r.socket
        /\ clean_session' = clean_session
        /\ keepalive_period' = keepalive_period
        /\ preflight_queue' = r.preflight_queue
        /\ inflight_queue' = r.inflight_queue
        /\ send_path_packet_ids' = r.send_path_packet_ids
        /\ wbuf' = r.wbuf
        /\ rbuf' = r.rbuf
        /\ tickets' = r.tickets
        /\ keepalive_due_deadline' = r.keepalive_due_deadline
        /\ keepalive_abort_deadline' = r.keepalive_abort_deadline
        /\ pingreq_active' = r.pingreq_active
        /\ ssl_want_read' = r.ssl_want_read
        /\ ssl_want_write' = r.ssl_want_write
        /\ name_resolution_future' = r.name_resolution_future
        /\ cancelled_callback' = r.cancelled_callback
        /\ op' = o
        /\ fired' = r.fired
        /\ fired_in' = r.fired_in
        /\ fired_closed' = r.fired_closed
        /\ exc' = r.exc
        /\ launched' = r.launched
        /\ sent' = r.sent
        /\ start_preflight' = r.start_preflight
        /\ pubrec_log' = r.pubrec_log
        /\ pubrel_log' = r.pubrel_log

\* An exception leaves the method it is raised in; the first one is kept.
Raise(s, e) == IF s.exc = "None" THEN [s EXCEPT !.exc = e] ELSE s

\* The reactor holds no socket, no deadline and no buffered byte.
Closed(s) ==
    /\ ~s.socket
    /\ s.sock_state = "stopped"
    /\ s.name_resolution_future = "None"
    /\ s.keepalive_due_deadline = "None"
    /\ s.keepalive_abort_deadline = "None"
    /\ s.wbuf = <<>>
    /\ s.rbuf = "empty"

\* The reactor calls the host's callback cb.
Fire(s, cb) ==
    [s EXCEPT !.fired = Append(@, cb),
              !.fired_in = Append(@, s.state),
              !.fired_closed = Append(@, Closed(s))]

Min(a, b) == IF a < b THEN a ELSE b

\* A queue entry.  A ticket (publish, subscribe, unsubscribe) is referred to
\* by its index tk in tickets, where its mutable status and dupe flag live;
\* tk is 0 for a packet that is no ticket.  len is the number of bytes the
\* packet encodes to.
Record(ptype, packet_id, tk) ==
    [ptype |-> ptype, packet_id |-> packet_id, tk |-> tk, len |-> PacketLen]

Qos(s, rec) == s.tickets[rec.tk].qos

SetStatus(s, tk, status) == [s EXCEPT !.tickets[tk].status = status]

RECURSIVE SelectRecords(_, _)
SelectRecords(q, ptypes) ==
    IF q = <<>> THEN <<>>
    ELSE IF Head(q).ptype \in ptypes
         THEN <<Head(q)>> \o SelectRecords(Tail(q), ptypes)
         ELSE SelectRecords(Tail(q), ptypes)

RECURSIVE RemoveId(_, _)
\* del self.__inflight_queue[packet_id]
RemoveId(q, id) ==
    IF q = <<>> THEN <<>>
    ELSE IF Head(q).packet_id = id THEN Tail(q)
         ELSE <<Head(q)>> \o RemoveId(Tail(q), id)

InflightIds(q) == {q[i].packet_id : i \in 1 .. Len(q)}

----------------------------------------------------------------------------
\* haka_mqtt.packet_ids.PacketIdGenerator

FreeIds(ids) == PacketIds \ ids

\* acquire(): the smallest free identifier.
AcquireId(ids) == CHOOSE i \in FreeIds(ids) : \A j \in FreeIds(ids) : i <= j

\* release(id); releasing an id that is not held is an assertion failure.
Release(s, id) ==
    IF id \in s.send_path_packet_ids
    THEN [s EXCEPT !.send_path_packet_ids = @ \ {id}]
    ELSE Raise(s, "AssertionError")

----------------------------------------------------------------------------
\* Readiness

want_read(s) ==
    IF s.sock_state = "handshake" THEN s.ssl_want_read
    ELSE s.sock_state \in {"connected", "mute"}

want_write(s) ==
    IF s.sock_state \in {"stopped", "name_resolution", "mute"} THEN FALSE
    ELSE IF s.sock_state = "connecting" THEN TRUE
    ELSE IF s.sock_state = "handshake" THEN s.ssl_want_write
    ELSE s.preflight_queue # <<>> \/ s.wbuf # <<>>

\* Reactor.__assert_state_rules: TRUE when no assertion of it fails.
assert_state_rules(s) ==
    /\ (\/ s.mqtt_state \in INACTIVE_MQTT_STATES
        \/ s.sock_state \in INACTIVE_SOCK_STATES
        \/ s.state \in INACTIVE_STATES)
       => /\ s.mqtt_state \in INACTIVE_MQTT_STATES
          /\ s.sock_state \in INACTIVE_SOCK_STATES
          /\ s.state \in INACTIVE_STATES
    /\ s.sock_state \in {"name_resolution", "connecting", "handshake"}
       => s.state = "starting" /\ s.mqtt_state = "connack"
    /\ (want_write(s) \/ want_read(s)) => s.socket
    /\ s.sock_state \notin {"connected", "deaf", "mute"} => ~s.pingreq_active
    /\ s.sock_state \in {"handshake", "connected", "mute", "deaf"}
       => s.keepalive_abort_deadline # "None"
    /\ s.sock_state \in {"name_resolution", "connecting", "stopped"}
       => s.keepalive_abort_deadline = "None"
    /\ s.sock_state \notin {"connected", "deaf"}
       => s.keepalive_due_deadline = "None"
    /\ s.state = "error" => s.error # "None"

\* The check a public operation makes before it returns.
Leave(s) == IF assert_state_rules(s) THEN s ELSE Raise(s, "AssertionError")

----------------------------------------------------------------------------
\* Termination

\* A __terminate_socket that closes the socket and leaves SocketState.
terminate_socket_keeping_sock_state(s) ==
    [s EXCEPT !.name_resolution_future = "None",
              !.socket = FALSE]

\* Reactor.__on_name_resolution, for a future that was cancelled
on_name_resolution_cancelled(s) ==
    IF s.sock_state # "name_resolution" THEN Raise(s, "AssertionError")
    ELSE s

\* self.__name_resolution_future.cancel(): a future that is done is left
\* alone; the callback of one that is not runs now or is still to run.
cancel(s) ==
    IF s.name_resolution_future # "pending" THEN s
    ELSE IF s.cancelled_callback = "inside"
    THEN on_name_resolution_cancelled(s)
    ELSE [s EXCEPT !.cancelled_callback = "pending"]

\* Reactor.__terminate_socket
terminate_socket(s) ==
    [cancel(s) EXCEPT !.name_resolution_future = "None",
                      !.socket = FALSE,
                      !.sock_state = "stopped"]

\* A __terminate that leaves MqttState as it is.
terminate_keeping_mqtt_state(s, st, err) ==
    [terminate_socket(s) EXCEPT !.pingreq_active = FALSE,
                                !.wbuf = <<>>,
                                !.rbuf = "empty",
                                !.keepalive_abort_deadline = "None",
                                !.keepalive_due_deadline = "None",
                                !.state = st,
                                !.error = err]

\* A __terminate that calls the host before it cleans up.
terminate_callback_first(s, st, err) ==
    LET s1 == Fire(s, IF s.mqtt_state = "connack" THEN "on_connect_fail"
                      ELSE "on_disconnect")
    IN  [terminate_socket(s1) EXCEPT !.pingreq_active = FALSE,
                                     !.wbuf = <<>>,
                                     !.rbuf = "empty",
                                     !.keepalive_abort_deadline = "None",
                                     !.keepalive_due_deadline = "None",
                                     !.state = st,
                                     !.error = err,
                                     !.mqtt_state = "stopped"]

\* A __terminate that leaves a pending PINGREQ pending.
terminate_keeping_pingreq(s, st, err) ==
    LET s1 == terminate_socket(s)
        s2 == [s1 EXCEPT !.wbuf = <<>>,
                         !.rbuf = "empty",
                         !.keepalive_abort_deadline = "None",
                         !.keepalive_due_deadline = "None",
                         !.state = st,
                         !.error = err,
                         !.mqtt_state = "stopped"]
    IN  IF s.mqtt_state = "connack" THEN Fire(s2, "on_connect_fail")
        ELSE IF s.mqtt_state \in {"connected", "mute"}
        THEN Fire(s2, "on_disconnect")
        ELSE Raise(s2, "UnboundLocalError")

\* Reactor.__terminate(state, error)
terminate_(s, st, err) ==
    LET s1 == terminate_socket(s)
        s2 == [s1 EXCEPT !.pingreq_active = FALSE,
                         !.wbuf = <<>>,
                         !.rbuf = "empty",
                         !.keepalive_abort_deadline = "None",
                         !.keepalive_due_deadline = "None",
                         !.state = st,
                         !.error = err,
                         !.mqtt_state = "stopped"]
    IN  IF s.mqtt_state = "connack" THEN Fire(s2, "on_connect_fail")
        ELSE IF s.mqtt_state \in {"connected", "mute"}
        THEN Fire(s2, "on_disconnect")
        ELSE Raise(s2, "UnboundLocalError")

\* An __abort that records no cause.
abort_without_cause(s, e) == terminate_(s, "error", "None")

\* Reactor.__abort(e)
abort(s, e) == terminate_(s, "error", e)

abort_socket_error(s) == abort(s, "SocketReactorError")

abort_protocol_violation(s) == abort(s, "ProtocolReactorError")

\* An __abort_early_packet that reports a socket error.
abort_early_packet_as_socket_error(s) == abort(s, "SocketReactorError")

abort_early_packet(s) == abort_protocol_violation(s)

----------------------------------------------------------------------------
\* Sending

\* The bytes of one packet.  A PUBLISH carries the ticket's dupe flag as it
\* is when the packet is encoded.  tk tells the bytes of one ticket from
\* those of another with the same packet id.
Encode(s, rec) ==
    [k \in 1 .. rec.len |->
        [ptype |-> rec.ptype, packet_id |-> rec.packet_id, tk |-> rec.tk,
         dupe |-> IF rec.tk > 0 THEN s.tickets[rec.tk].dupe ELSE FALSE,
         k |-> k]]

RECURSIVE NumEncoded(_, _, _)
\* The first loop of __launch_packets: how many records from index i on are
\* encoded into the write buffer when it holds wbuf_size bytes.
NumEncoded(q, i, wbuf_size) ==
    IF i > Len(q) THEN 0
    ELSE IF wbuf_size + q[i].len <= max_buf_size
         THEN IF q[i].ptype = "disconnect" THEN 1
              ELSE 1 + NumEncoded(q, i + 1, wbuf_size + q[i].len)
         ELSE 0

RECURSIVE EncodeAll(_, _, _)
EncodeAll(s, i, n) ==
    IF n = 0 THEN <<>>
    ELSE Encode(s, s.preflight_queue[i]) \o EncodeAll(s, i + 1, n - 1)

RECURSIVE num_new_bytes(_, _)
\* The bytes the first n records of q encode to.
num_new_bytes(q, n) ==
    IF n = 0 THEN 0 ELSE num_new_bytes(q, n - 1) + q[n].len

\* packet_end_offsets = [wbuf_size], then one entry per encoded record.
packet_end_offsets(q, wbuf_size, n) ==
    [i \in 1 .. (n + 1) |-> wbuf_size + num_new_bytes(q, i - 1)]

RECURSIVE NumLaunched(_, _, _)
\* The second loop of __launch_packets, over packet_end_offsets from index i.
NumLaunched(offsets, i, num_bytes_flushed) ==
    IF i > Len(offsets) THEN 0
    ELSE IF num_bytes_flushed > offsets[i]
         THEN 1 + NumLaunched(offsets, i + 1, num_bytes_flushed)
         ELSE 0

\* self.__inflight_queue[packet_id] = packet_record, after the assertion
\* that the id is no key of it.
PutInflight(s, rec) ==
    IF rec.packet_id \in InflightIds(s.inflight_queue)
    THEN Raise(s, "AssertionError")
    ELSE [s EXCEPT !.inflight_queue = Append(@, rec)]

\* A launch that puts a QoS-0 publish in flight like one of QoS 1.
LaunchOneAwaitingAckOfQos0(s, rec) ==
    IF rec.ptype = "publish" THEN
        IF Qos(s, rec) <= 1
        THEN PutInflight(SetStatus(s, rec.tk, "puback"), rec)
        ELSE PutInflight(SetStatus(s, rec.tk, "pubrec"), rec)
    ELSE IF rec.ptype \in {"pubrel", "unsubscribe"} THEN PutInflight(s, rec)
    ELSE IF rec.ptype = "subscribe" THEN
        PutInflight(SetStatus(s, rec.tk, "ack"), rec)
    ELSE IF rec.ptype = "disconnect" THEN
        [s EXCEPT !.sock_state = "mute", !.keepalive_due_deadline = "None"]
    ELSE s

\* The body of the third loop of __launch_packets for one launched record.
LaunchOne(s, rec) ==
    IF rec.ptype = "publish" THEN
        IF Qos(s, rec) = 0
        THEN SetStatus(Release(s, rec.packet_id), rec.tk, "done")
        ELSE IF Qos(s, rec) = 1
        THEN PutInflight(SetStatus(s, rec.tk, "puback"), rec)
        ELSE PutInflight(SetStatus(s, rec.tk, "pubrec"), rec)
    ELSE IF rec.ptype = "pubrel" THEN
        LET s1 == PutInflight(s, rec)
        IN  IF s1.exc = "None"
            THEN [s1 EXCEPT !.pubrel_log = Append(@, rec.packet_id)]
            ELSE s1
    ELSE IF rec.ptype = "subscribe" THEN
        PutInflight(SetStatus(s, rec.tk, "ack"), rec)
    ELSE IF rec.ptype = "unsubscribe" THEN
        PutInflight(s, rec)
    ELSE IF rec.ptype = "disconnect" THEN
        IF s.state # "stopping" THEN Raise(s, "AssertionError")
        ELSE [s EXCEPT !.sock_state = "mute",
                       !.keepalive_due_deadline = "None"]
    ELSE s

RECURSIVE LaunchAll(_, _)
LaunchAll(s, recs) ==
    IF recs = <<>> \/ s.exc # "None" THEN s
    ELSE LaunchAll(LaunchOne(s, Head(recs)), Tail(recs))

\* Reactor.__flush: one socket.send.  snd is what the socket does with it:
\* SendError, or the number of bytes it accepts (0: EWOULDBLOCK).
\* The result is the reactor and num_bytes_written.
flush(s, snd) ==
    LET s1 == [s EXCEPT !.ssl_want_read = FALSE, !.ssl_want_write = FALSE]
    IN  IF s1.wbuf = <<>> THEN [s |-> s1, n |-> 0]
        ELSE IF snd = SendError THEN [s |-> abort_socket_error(s1), n |-> 0]
        ELSE LET n == Min(snd, Len(s1.wbuf))
             IN  [s |-> [s1 EXCEPT !.sent = @ \o SubSeq(s1.wbuf, 1, n)],
                  n |-> n]

\* What __launch_packets records of a launched record: the record, the
\* offset in the write buffer at which its encoding ended, and the number
\* of bytes the flush of that call wrote.
LaunchEntry(rec, end_offset, num_bytes_flushed) ==
    [rec |-> rec, end_offset |-> end_offset, flushed |-> num_bytes_flushed]

\* Reactor.__launch_packets
launch_packets(s, snd) ==
    LET wbuf_size == Len(s.wbuf)
        n == NumEncoded(s.preflight_queue, 1, wbuf_size)
        offsets == packet_end_offsets(s.preflight_queue, wbuf_size, n)
        s1 == [s EXCEPT !.wbuf = @ \o EncodeAll(s, 1, n)]
        f == flush(s1, snd)
        num_bytes_flushed == f.n
        num_messages_launched == NumLaunched(offsets, 1, num_bytes_flushed)
        launched_packets == SubSeq(s.preflight_queue, 1, num_messages_launched)
        s2 == [f.s EXCEPT
                 !.preflight_queue =
                     SubSeq(@, num_messages_launched + 1, Len(@)),
                 !.launched = @ \o
                     [i \in 1 .. num_messages_launched |->
                        LaunchEntry(launched_packets[i], offsets[i + 1],
                                    num_bytes_flushed)]]
        s3 == LaunchAll(s2, launched_packets)
    IN  IF s3.exc # "None" THEN s3
        ELSE [s3 EXCEPT !.wbuf = SubSeq(@, num_bytes_flushed + 1, Len(@))]

\* Reactor.__feed_wbuf
feed_wbuf(s, snd) ==
    IF s.exc # "None" THEN s
    ELSE IF s.sock_state \in {"connected", "deaf"} THEN launch_packets(s, snd)
    ELSE IF s.sock_state \in {"stopped", "mute", "name_resolution", "connecting"}
    THEN s
    ELSE Raise(s, "NotImplementedError")

----------------------------------------------------------------------------
\* Connecting.  What the environment does is an input record e:
\*   e.res   the name resolution: "pending", "error" (no result), "empty", "ok"
\*   e.conn  socket.connect: "EINPROGRESS", "error", "ok"
\*   e.tls   the socket has a do_handshake method
\*   e.hs    do_handshake: "want_read", "want_write", "error", "ok"
\*   e.snd   socket.send, as for flush
\*   e.tail  what socket.recv returns behind the bytes that complete a
\*           packet: "none", or bytes that are a "partial_header" or a
\*           "partial_body"

\* Reactor.__set_connack
set_connack(s, e) ==
    IF \/ s.sock_state \notin {"connecting", "handshake"}
       \/ s.mqtt_state # "connack"
       \/ s.state # "starting"
       \/ s.inflight_queue # <<>>
       \/ s.wbuf # <<>>
    THEN Raise(s, "AssertionError")
    ELSE feed_wbuf([s EXCEPT
                      !.sock_state = "connected",
                      !.preflight_queue =
                          <<Record("connect", NoPacketId, 0)>> \o @],
                   e.snd)

\* Reactor.__set_handshake
set_handshake(s, e) ==
    IF s.sock_state \notin {"connecting", "handshake"} \/ s.state # "starting"
    THEN Raise(s, "AssertionError")
    ELSE LET s1 == [s EXCEPT !.sock_state = "handshake",
                             !.ssl_want_read = FALSE,
                             !.ssl_want_write = FALSE]
         IN  IF e.hs = "want_read" THEN [s1 EXCEPT !.ssl_want_read = TRUE]
             ELSE IF e.hs = "want_write" THEN [s1 EXCEPT !.ssl_want_write = TRUE]
             ELSE IF e.hs = "error" THEN abort(s1, "socket.error")
             ELSE set_connack(s1, e)

\* Reactor.__on_connect
on_connect(s, e) ==
    IF s.sock_state # "connecting" \/ s.state # "starting"
    THEN Raise(s, "AssertionError")
    ELSE LET s1 == [s EXCEPT !.keepalive_abort_deadline = "scheduled"]
         IN  IF e.tls THEN set_handshake(s1, e) ELSE set_connack(s1, e)

\* A __connect that takes the reactor for started once its socket exists.
connect_started_early(s, e) ==
    IF s.sock_state # "name_resolution" \/ s.state # "starting"
    THEN Raise(s, "AssertionError")
    ELSE LET s1 == [s EXCEPT !.sock_state = "connecting", !.socket = TRUE,
                             !.state = "started"]
         IN  IF e.conn = "EINPROGRESS" THEN s1
             ELSE IF e.conn = "error" THEN abort_socket_error(s1)
             ELSE on_connect(s1, e)

\* Reactor.__connect
connect(s, e) ==
    IF s.sock_state # "name_resolution" \/ s.state # "starting"
    THEN Raise(s, "AssertionError")
    ELSE LET s1 == [s EXCEPT !.sock_state = "connecting", !.socket = TRUE]
         IN  IF e.conn = "EINPROGRESS" THEN s1
             ELSE IF e.conn = "error" THEN abort_socket_error(s1)
             ELSE on_connect(s1, e)

\* Reactor.__on_name_resolution, for a future that was not cancelled
on_name_resolution(s, e) ==
    IF s.sock_state # "name_resolution" THEN Raise(s, "AssertionError")
    ELSE LET s1 == [s EXCEPT !.name_resolution_future = "done"]
         IN  IF e.res \in {"error", "empty"}
             THEN abort(s1, "AddressReactorError")
             ELSE connect(s1, e)

RECURSIVE SetDupes(_, _)
\* The first loop of __start over the in-flight records q: the dupe flag of
\* every publish that is retransmitted is set.
SetDupes(s, q) ==
    IF q = <<>> \/ s.exc # "None" THEN s
    ELSE LET p == Head(q)
         IN  IF p.ptype # "publish" THEN SetDupes(s, Tail(q))
             ELSE IF Qos(s, p) = 1 THEN
                 IF s.tickets[p.tk].status # "puback"
                 THEN Raise(s, "AssertionError")
                 ELSE SetDupes([s EXCEPT !.tickets[p.tk].dupe = TRUE], Tail(q))
             ELSE IF Qos(s, p) = 2 THEN
                 IF s.tickets[p.tk].status = "pubrec"
                 THEN SetDupes([s EXCEPT !.tickets[p.tk].dupe = TRUE], Tail(q))
                 ELSE SetDupes(s, Tail(q))
             ELSE Raise(s, "NotImplementedError")

\* A rebuilt preflight queue with the in-flight publishes behind the records
\* that were already waiting.
RebuiltPreflightWaitingFirst(s) ==
    SelectRecords(s.preflight_queue, {"publish", "pubrel"})
        \o SelectRecords(s.inflight_queue, {"publish"})

\* The preflight queue __start builds: the in-flight publishes, then the
\* publishes and pubrels of preflight.
RebuiltPreflight(s) ==
    SelectRecords(s.inflight_queue, {"publish"})
        \o SelectRecords(s.preflight_queue, {"publish", "pubrel"})

\* Reactor.__start
start_(s, e) ==
    IF \/ s.sock_state \notin INACTIVE_SOCK_STATES
       \/ s.mqtt_state \notin INACTIVE_MQTT_STATES
       \/ s.state \notin INACTIVE_STATES
    THEN Raise(s, "AssertionError")
    ELSE LET s1 == SetDupes([s EXCEPT !.error = "None",
                                      !.ssl_want_write = FALSE,
                                      !.ssl_want_read = FALSE,
                                      !.pingreq_active = FALSE,
                                      !.name_resolution_future = "None"],
                            s.inflight_queue)
             s2 == [s1 EXCEPT !.socket = FALSE,
                              !.inflight_queue = <<>>,
                              !.preflight_queue = RebuiltPreflight(s),
                              !.start_preflight = RebuiltPreflight(s),
                              !.wbuf = <<>>,
                              !.rbuf = "empty",
                              !.state = "starting",
                              !.sock_state = "name_resolution",
                              !.mqtt_state = "connack",
                              !.name_resolution_future = "pending"]
         IN  IF s1.exc # "None" THEN s1
             ELSE IF e.res = "pending" THEN s2
             ELSE on_name_resolution(s2, e)

----------------------------------------------------------------------------
\* Submission

Ticket(kind, packet_id, qos, ntopics) ==
    [kind |-> kind, packet_id |-> packet_id, qos |-> qos, ntopics |-> ntopics,
     status |-> "preflight", dupe |-> FALSE]

\* The body shared by subscribe, unsubscribe and publish: a packet id is
\* acquired, the ticket is made and appended to preflight.
SubmitLen(s, kind, qos, ntopics, len) ==
    IF FreeIds(s.send_path_packet_ids) = {}
    THEN Raise(s, "PacketIdReactorException")
    ELSE LET id == AcquireId(s.send_path_packet_ids)
             tk == Len(s.tickets) + 1
         IN  [s EXCEPT !.send_path_packet_ids = @ \cup {id},
                       !.tickets = Append(@, Ticket(kind, id, qos, ntopics)),
                       !.preflight_queue =
                           Append(@, [Record(kind, id, tk)
                                          EXCEPT !.len = len])]

Submit(s, kind, qos, ntopics) == SubmitLen(s, kind, qos, ntopics, PacketLen)

\* Reactor.publish of a payload with which the packet encodes to len bytes
publish_payload(s, qos, len) ==
    IF ~assert_state_rules(s) THEN Raise(s, "AssertionError")
    ELSE Leave(SubmitLen(s, "publish", qos, 0, len))

\* Reactor.publish of a small payload
publish(s, qos) == publish_payload(s, qos, PacketLen)

\* Reactor.subscribe
subscribe(s, ntopics) ==
    IF ~assert_state_rules(s) THEN Raise(s, "AssertionError")
    ELSE Leave(Submit(s, "subscribe", 0, ntopics))

\* Reactor.unsubscribe
unsubscribe(s, ntopics) ==
    IF ~assert_state_rules(s) THEN Raise(s, "AssertionError")
    ELSE Leave(Submit(s, "unsubscribe", 0, ntopics))

\* A host callback.  From inside on_pubrec the host may publish (e.host is
\* the qos, NoPacketId for no publish).
Callback(s, cb, e) ==
    LET s1 == Fire(s, cb)
    IN  IF s.exc # "None" THEN s
        ELSE IF cb = "on_pubrec" /\ e.host >= 0
        THEN publish(s1, e.host)
        ELSE s1

----------------------------------------------------------------------------
\* Receiving.  An inbound packet is a record
\*   [ptype, packet_id, qos, session_present, return_code, nresults].

Packet(ptype, packet_id) ==
    [ptype |-> ptype, packet_id |-> packet_id, qos |-> 0,
     session_present |-> FALSE, return_code |-> "accepted", nresults |-> 0]

\* An __on_connack_accepted that calls on_connack before it sets the states.
on_connack_accepted_callback_first(s, connack, e) ==
    IF s.mqtt_state # "connack" THEN Raise(s, "AssertionError")
    ELSE IF connack.session_present /\ clean_session
    THEN abort_protocol_violation(s)
    ELSE IF s.state \notin {"starting", "stopping"}
    THEN Raise(s, "NotImplementedError")
    ELSE LET s1 == Callback(s, "on_connack", e)
         IN  feed_wbuf(
               [s1 EXCEPT !.state = IF @ = "starting" THEN "started" ELSE @,
                          !.mqtt_state = "connected"],
               e.snd)

\* An __on_connack_accepted that does not look at session_present.
on_connack_accepted_any_session(s, connack, e) ==
    IF s.mqtt_state # "connack" THEN Raise(s, "AssertionError")
    ELSE IF s.state \notin {"starting", "stopping"}
    THEN Raise(s, "NotImplementedError")
    ELSE feed_wbuf(
           Callback([s EXCEPT !.state = IF @ = "starting" THEN "started" ELSE @,
                              !.mqtt_state = "connected"],
                    "on_connack", e),
           e.snd)

\* Reactor.__on_connack_accepted
on_connack_accepted(s, connack, e) ==
    IF s.mqtt_state # "connack" THEN Raise(s, "AssertionError")
    ELSE IF connack.session_present /\ clean_session
    THEN abort_protocol_violation(s)
    ELSE IF s.state \notin {"starting", "stopping"}
    THEN Raise(s, "NotImplementedError")
    ELSE feed_wbuf(
           Callback([s EXCEPT !.state = IF @ = "starting" THEN "started" ELSE @,
                              !.mqtt_state = "connected"],
                    "on_connack", e),
           e.snd)

\* The return codes of a CONNACK that refuses the connection.
ConnackFailCodes ==
    {"fail_bad_protocol_version", "fail_bad_client_id",
     "fail_server_unavailable", "fail_bad_username_or_password",
     "fail_not_authorized"}

\* ConnectReactorError(result)
ConnectReactorError(result) == "ConnectReactorError(" \o result \o ")"

\* An __on_connack that reports every refusal as fail_not_authorized.
on_connack_one_fail_code(s, connack, e) ==
    IF s.mqtt_state = "connack" THEN
        IF connack.return_code = "accepted"
        THEN on_connack_accepted(s, connack, e)
        ELSE abort(s, ConnectReactorError("fail_not_authorized"))
    ELSE IF s.mqtt_state = "connected" THEN abort_protocol_violation(s)
    ELSE Raise(s, "NotImplementedError")

\* An __on_connack that takes a CONNACK whenever one arrives.
on_connack_at_any_time(s, connack, e) ==
    IF s.mqtt_state \in {"connack", "connected"} THEN
        IF connack.return_code = "accepted"
        THEN feed_wbuf(
               Callback([s EXCEPT
                           !.state = IF @ = "starting" THEN "started" ELSE @,
                           !.mqtt_state = "connected"],
                        "on_connack", e),
               e.snd)
        ELSE abort(s, ConnectReactorError(connack.return_code))
    ELSE Raise(s, "NotImplementedError")

\* Reactor.__on_connack
on_connack(s, connack, e) ==
    IF s.mqtt_state = "connack" THEN
        IF connack.return_code = "accepted"
        THEN on_connack_accepted(s, connack, e)
        ELSE IF connack.return_code \in ConnackFailCodes
        THEN abort(s, ConnectReactorError(connack.return_code))
        ELSE Raise(s, "NotImplementedError")
    ELSE IF s.mqtt_state = "connected" THEN abort_protocol_violation(s)
    ELSE Raise(s, "NotImplementedError")

\* An __on_publish that acknowledges on a muted socket too.
on_publish_acknowledging_when_mute(s, p, e) ==
    IF s.mqtt_state = "connack" THEN abort_early_packet(s)
    ELSE LET s1 == Callback(s, "on_publish", e)
         IN  IF p.qos = 0 THEN s1
             ELSE [s1 EXCEPT !.preflight_queue =
                      Append(@, Record(IF p.qos = 1 THEN "puback"
                                       ELSE "pubrec", p.packet_id, 0))]

\* Reactor.__on_publish
on_publish(s, p, e) ==
    IF s.mqtt_state = "connack" THEN abort_early_packet(s)
    ELSE IF s.mqtt_state = "connected" THEN
        LET s1 == Callback(s, "on_publish", e)
        IN  IF s1.exc # "None" THEN s1
            ELSE IF s1.sock_state \in {"connected", "deaf"} THEN
                IF p.qos = 1
                THEN [s1 EXCEPT !.preflight_queue =
                         Append(@, Record("puback", p.packet_id, 0))]
                ELSE IF p.qos = 2
                THEN [s1 EXCEPT !.preflight_queue =
                         Append(@, Record("pubrec", p.packet_id, 0))]
                ELSE s1
            ELSE IF s1.sock_state = "mute" THEN s1
            ELSE Raise(s1, "NotImplementedError")
    ELSE Raise(s, "NotImplementedError")

\* get_packet_type(d, packet_id, packet_type): the records found (none or one)
get_packet_type(d, packet_id, packet_type) ==
    SelectSeq(d, LAMBDA r : r.packet_id = packet_id /\ r.ptype = packet_type)

\* An __on_suback that does not count the results.
on_suback_any_result_count(s, suback, e) ==
    IF s.mqtt_state = "connack" THEN abort_early_packet(s)
    ELSE IF s.mqtt_state = "connected" THEN
        LET found == get_packet_type(s.inflight_queue, suback.packet_id,
                                     "subscribe")
        IN  IF found = <<>> THEN abort_protocol_violation(s)
            ELSE Callback(
                   [Release(SetStatus(s, found[1].tk, "done"),
                            found[1].packet_id)
                      EXCEPT !.inflight_queue = RemoveId(@, suback.packet_id)],
                   "on_suback", e)
    ELSE Raise(s, "NotImplementedError")

\* Reactor.__on_suback
on_suback(s, suback, e) ==
    IF s.mqtt_state = "connack" THEN abort_early_packet(s)
    ELSE IF s.mqtt_state = "connected" THEN
        LET found == get_packet_type(s.inflight_queue, suback.packet_id,
                                     "subscribe")
        IN  IF found = <<>> THEN abort_protocol_violation(s)
            ELSE IF suback.nresults = s.tickets[found[1].tk].ntopics
            THEN Callback(
                   [Release(SetStatus(s, found[1].tk, "done"),
                            found[1].packet_id)
                      EXCEPT !.inflight_queue = RemoveId(@, suback.packet_id)],
                   "on_suback", e)
            ELSE abort_protocol_violation(s)
    ELSE Raise(s, "NotImplementedError")

\* Reactor.__on_unsuback
on_unsuback(s, unsuback, e) ==
    IF s.mqtt_state = "connack" THEN abort_early_packet(s)
    ELSE IF s.mqtt_state = "connected" THEN
        LET found == get_packet_type(s.inflight_queue, unsuback.packet_id,
                                     "unsubscribe")
        IN  IF found = <<>> THEN abort_protocol_violation(s)
            ELSE Callback(
                   [Release(SetStatus(s, found[1].tk, "done"),
                            found[1].packet_id)
                      EXCEPT !.inflight_queue = RemoveId(@, unsuback.packet_id)],
                   "on_unsuback", e)
    ELSE Raise(s, "NotImplementedError")

\* Reactor.__on_puback
\* An __on_puback that leaves the packet id with the allocator.
on_puback_keeping_id(s, puback, e) ==
    IF s.mqtt_state = "connack" THEN abort_early_packet(s)
    ELSE IF s.mqtt_state = "connected" THEN
        LET in_flight == SelectRecords(s.inflight_queue, {"publish"})
        IN  IF in_flight # <<>> /\ in_flight[1].packet_id = puback.packet_id
            THEN IF Qos(s, in_flight[1]) = 1
                 THEN Callback(
                        SetStatus(
                          [s EXCEPT !.inflight_queue =
                               RemoveId(@, puback.packet_id)],
                          in_flight[1].tk, "done"),
                        "on_puback", e)
                 ELSE abort_protocol_violation(s)
            ELSE abort_protocol_violation(s)
    ELSE Raise(s, "NotImplementedError")

\* Reactor.__on_puback
on_puback(s, puback, e) ==
    IF s.mqtt_state = "connack" THEN abort_early_packet(s)
    ELSE IF s.mqtt_state = "connected" THEN
        LET in_flight == SelectRecords(s.inflight_queue, {"publish"})
        IN  IF in_flight # <<>> /\ in_flight[1].packet_id = puback.packet_id
            THEN IF Qos(s, in_flight[1]) = 1
                 THEN Callback(
                        SetStatus(
                          Release([s EXCEPT !.inflight_queue =
                                       RemoveId(@, puback.packet_id)],
                                  in_flight[1].packet_id),
                          in_flight[1].tk, "done"),
                        "on_puback", e)
                 ELSE abort_protocol_violation(s)
            ELSE abort_protocol_violation(s)
    ELSE Raise(s, "NotImplementedError")

\* list.insert(idx, x)
Insert(q, idx, x) ==
    LET i == Min(idx, Len(q))
    IN  SubSeq(q, 1, i) \o <<x>> \o SubSeq(q, i + 1, Len(q))

\* An __on_pubrec that takes the PUBREC of any in-flight QoS-2 publish, not
\* only of the first.
on_pubrec_of_any_in_flight(s, pubrec, e) ==
    IF s.mqtt_state = "connack" THEN abort_early_packet(s)
    ELSE IF s.mqtt_state = "connected" THEN
        LET in_flight == SelectRecords(s.inflight_queue, {"publish"})
            match == {i \in 1 .. Len(in_flight) :
                        /\ in_flight[i].packet_id = pubrec.packet_id
                        /\ Qos(s, in_flight[i]) = 2}
        IN  IF match # {}
            THEN LET insert_idx == Len(s.preflight_queue)
                     s1 == Callback(
                             [s EXCEPT
                                !.inflight_queue =
                                    RemoveId(@, pubrec.packet_id),
                                !.pubrec_log = Append(@, pubrec.packet_id)],
                             "on_pubrec", e)
                 IN  IF s1.exc # "None" THEN s1
                     ELSE [s1 EXCEPT !.preflight_queue =
                             Insert(@, insert_idx,
                                    Record("pubrel", pubrec.packet_id, 0))]
            ELSE abort_protocol_violation(s)
    ELSE Raise(s, "NotImplementedError")

\* An __on_pubrec that appends the PUBREL once on_pubrec has returned.
on_pubrec_appending_pubrel(s, pubrec, e) ==
    IF s.mqtt_state = "connack" THEN abort_early_packet(s)
    ELSE IF s.mqtt_state = "connected" THEN
        LET in_flight == SelectRecords(s.inflight_queue, {"publish"})
        IN  IF in_flight # <<>> /\ in_flight[1].packet_id = pubrec.packet_id
            THEN IF Qos(s, in_flight[1]) = 2
                 THEN LET s1 == Callback(
                                  [s EXCEPT
                                     !.inflight_queue =
                                         RemoveId(@, pubrec.packet_id),
                                     !.pubrec_log =
                                         Append(@, pubrec.packet_id)],
                                  "on_pubrec", e)
                      IN  IF s1.exc # "None" THEN s1
                          ELSE [s1 EXCEPT !.preflight_queue =
                                  Append(@, Record("pubrel",
                                                   pubrec.packet_id, 0))]
                 ELSE abort_protocol_violation(s)
            ELSE abort_protocol_violation(s)
    ELSE Raise(s, "NotImplementedError")

\* An __on_pubrec that leaves the publish in flight beside its PUBREL.
on_pubrec_keeping_publish(s, pubrec, e) ==
    IF s.mqtt_state = "connack" THEN abort_early_packet(s)
    ELSE IF s.mqtt_state = "connected" THEN
        LET in_flight == SelectRecords(s.inflight_queue, {"publish"})
        IN  IF in_flight # <<>> /\ in_flight[1].packet_id = pubrec.packet_id
            THEN IF Qos(s, in_flight[1]) = 2
                 THEN LET insert_idx == Len(s.preflight_queue)
                          s1 == Callback(
                                  [s EXCEPT
                                     !.pubrec_log =
                                         Append(@, pubrec.packet_id)],
                                  "on_pubrec", e)
                      IN  IF s1.exc # "None" THEN s1
                          ELSE [s1 EXCEPT !.preflight_queue =
                                  Insert(@, insert_idx,
                                         Record("pubrel", pubrec.packet_id, 0))]
                 ELSE abort_protocol_violation(s)
            ELSE abort_protocol_violation(s)
    ELSE Raise(s, "NotImplementedError")

\* Reactor.__on_pubrec
on_pubrec(s, pubrec, e) ==
    IF s.mqtt_state = "connack" THEN abort_early_packet(s)
    ELSE IF s.mqtt_state = "connected" THEN
        LET in_flight == SelectRecords(s.inflight_queue, {"publish"})
        IN  IF in_flight # <<>> /\ in_flight[1].packet_id = pubrec.packet_id
            THEN IF Qos(s, in_flight[1]) = 2
                 THEN LET insert_idx == Len(s.preflight_queue)
                          s1 == Callback(
                                  [s EXCEPT
                                     !.inflight_queue =
                                         RemoveId(@, pubrec.packet_id),
                                     !.pubrec_log =
                                         Append(@, pubrec.packet_id)],
                                  "on_pubrec", e)
                      IN  IF s1.exc # "None" THEN s1
                          ELSE [s1 EXCEPT !.preflight_queue =
                                  Insert(@, insert_idx,
                                         Record("pubrel", pubrec.packet_id, 0))]
                 ELSE abort_protocol_violation(s)
            ELSE abort_protocol_violation(s)
    ELSE Raise(s, "NotImplementedError")

\* An __on_pubcomp that takes the PUBCOMP of any in-flight PUBREL, not only
\* of the first.
on_pubcomp_of_any_in_flight(s, pubcomp, e) ==
    IF s.mqtt_state = "connack" THEN abort_early_packet(s)
    ELSE IF s.mqtt_state = "connected" THEN
        LET in_flight == SelectRecords(s.inflight_queue, {"pubrel"})
        IN  IF \E i \in 1 .. Len(in_flight) :
                   in_flight[i].packet_id = pubcomp.packet_id
            THEN Callback([s EXCEPT !.inflight_queue =
                               RemoveId(@, pubcomp.packet_id)],
                          "on_pubcomp", e)
            ELSE abort_protocol_violation(s)
    ELSE Raise(s, "NotImplementedError")

\* Reactor.__on_pubcomp
on_pubcomp(s, pubcomp, e) ==
    IF s.mqtt_state = "connack" THEN abort_early_packet(s)
    ELSE IF s.mqtt_state = "connected" THEN
        LET in_flight == SelectRecords(s.inflight_queue, {"pubrel"})
        IN  IF in_flight # <<>> /\ in_flight[1].packet_id = pubcomp.packet_id
            THEN Callback([s EXCEPT !.inflight_queue =
                               RemoveId(@, pubcomp.packet_id)],
                          "on_pubcomp", e)
            ELSE abort_protocol_violation(s)
    ELSE Raise(s, "NotImplementedError")

\* Reactor.__on_pubrel
on_pubrel(s, pubrel, e) ==
    IF s.mqtt_state = "connack" THEN abort_early_packet(s)
    ELSE IF s.mqtt_state = "connected" THEN
        LET s1 == Callback(s, "on_pubrel", e)
        IN  IF s1.exc # "None" THEN s1
            ELSE [s1 EXCEPT !.preflight_queue =
                     Append(@, Record("pubcomp", pubrel.packet_id, 0))]
    ELSE Raise(s, "NotImplementedError")

\* An __on_pingreq that answers on a muted socket too.
on_pingreq_answering_when_mute(s, pingreq) ==
    IF s.mqtt_state = "connack" THEN abort_early_packet(s)
    ELSE [s EXCEPT !.preflight_queue =
             Append(@, Record("pingresp", NoPacketId, 0))]

\* Reactor.__on_pingreq
on_pingreq(s, pingreq) ==
    IF s.sock_state \notin {"connected", "mute"} THEN Raise(s, "AssertionError")
    ELSE IF s.mqtt_state = "connack" THEN abort_early_packet(s)
    ELSE IF s.mqtt_state = "connected" THEN
        IF s.sock_state = "connected"
        THEN [s EXCEPT !.preflight_queue =
                 Append(@, Record("pingresp", NoPacketId, 0))]
        ELSE s
    ELSE Raise(s, "NotImplementedError")

\* Reactor.__on_pingresp
on_pingresp(s, pingresp) ==
    IF s.mqtt_state = "connack" THEN abort_early_packet(s)
    ELSE IF s.mqtt_state = "connected" THEN [s EXCEPT !.pingreq_active = FALSE]
    ELSE Raise(s, "NotImplementedError")

\* An __on_muted_remote for which the peer's EOF is always an error.
on_muted_remote_always_error(s) ==
    IF s.sock_state \in {"handshake", "connected", "mute"}
    THEN abort(s, "MutePeerReactorError")
    ELSE Raise(s, "AssertionError")

\* Reactor.__on_muted_remote
on_muted_remote(s) ==
    IF s.sock_state \in {"handshake", "connected"}
    THEN abort(s, "MutePeerReactorError")
    ELSE IF s.sock_state = "mute" THEN terminate_(s, "stopped", "None")
    ELSE Raise(s, "AssertionError")

\* The handler __on_recv_bytes calls for a packet p it has decoded.
on_packet(s, p, e) ==
    IF p.ptype = "connack" THEN on_connack(s, p, e)
    ELSE IF p.ptype = "suback" THEN on_suback(s, p, e)
    ELSE IF p.ptype = "unsuback" THEN on_unsuback(s, p, e)
    ELSE IF p.ptype = "puback" THEN on_puback(s, p, e)
    ELSE IF p.ptype = "publish" THEN on_publish(s, p, e)
    ELSE IF p.ptype = "pingresp" THEN on_pingresp(s, p)
    ELSE IF p.ptype = "pingreq" THEN on_pingreq(s, p)
    ELSE IF p.ptype = "pubrel" THEN on_pubrel(s, p, e)
    ELSE IF p.ptype = "pubcomp" THEN on_pubcomp(s, p, e)
    ELSE IF p.ptype = "pubrec" THEN on_pubrec(s, p, e)
    ELSE abort(s, "DecodeReactorError")

\* The turn of the loop of __on_recv_bytes that finds no whole packet in
\* rbuf.  Without a whole fixed header MqttFixedHeader.decode raises
\* UnderflowDecodeError, which read() catches; with one, and less than the
\* packet it announces, the loop starts over and finds the same, for ever.
decode_remainder(s) ==
    IF s.exc # "None" THEN s
    ELSE IF s.rbuf = "partial_body" THEN Raise(s, "NoReturn")
    ELSE s

\* An __on_recv_bytes that schedules the keepalive-due deadline in mute too.
on_recv_bytes_due_when_mute(s, kind, p, e) ==
    IF s.sock_state \notin {"connected", "mute"} THEN Raise(s, "AssertionError")
    ELSE LET s1 == [s EXCEPT
                      !.keepalive_due_deadline = "scheduled",
                      !.keepalive_abort_deadline = "scheduled",
                      !.rbuf = IF e.tail = "none" THEN "empty" ELSE e.tail]
         IN  IF kind = "packet" THEN decode_remainder(on_packet(s1, p, e))
             ELSE decode_remainder(s1)

\* Reactor.__on_recv_bytes, for bytes that with those of rbuf are the whole
\* packet p (kind "packet") or no whole packet (kind "bytes"), and then
\* e.tail
on_recv_bytes(s, kind, p, e) ==
    IF s.sock_state \notin {"connected", "mute"} THEN Raise(s, "AssertionError")
    ELSE LET s1 == [s EXCEPT
                      !.keepalive_due_deadline =
                          IF s.sock_state # "mute" THEN "scheduled" ELSE @,
                      !.keepalive_abort_deadline = "scheduled",
                      !.rbuf = IF e.tail = "none" THEN "empty" ELSE e.tail]
         IN  IF kind = "packet" THEN decode_remainder(on_packet(s1, p, e))
             ELSE decode_remainder(s1)

----------------------------------------------------------------------------
\* The public operations

\* Reactor.start
start(s, e) ==
    IF ~assert_state_rules(s) THEN Raise(s, "AssertionError")
    ELSE IF s.state \in INACTIVE_STATES THEN Leave(start_(s, e))
    ELSE Leave(s)

\* A stop that waits for the connection whatever the socket is doing.
stop_in_any_socket_state(s) ==
    IF ~assert_state_rules(s) THEN Raise(s, "AssertionError")
    ELSE IF s.state = "init" THEN Leave([s EXCEPT !.state = "stopped"])
    ELSE IF s.state \in {"starting", "started"} THEN
        Leave([s EXCEPT !.state = "stopping",
                        !.preflight_queue =
                            Append(@, Record("disconnect", NoPacketId, 0))])
    ELSE Leave(s)

\* Reactor.stop
stop(s) ==
    IF ~assert_state_rules(s) THEN Raise(s, "AssertionError")
    ELSE IF s.state = "init" THEN Leave([s EXCEPT !.state = "stopped"])
    ELSE IF s.state \in {"starting", "started"} THEN
        IF s.sock_state \in {"name_resolution", "connecting", "handshake"}
        THEN Leave(terminate_(s, "stopped", "None"))
        ELSE Leave([s EXCEPT !.state = "stopping",
                             !.preflight_queue =
                                 Append(@, Record("disconnect", NoPacketId, 0))])
    ELSE Leave(s)

\* A terminate that stops a reactor that is not running as well.
terminate_from_any_state(s) ==
    IF ~assert_state_rules(s) THEN Raise(s, "AssertionError")
    ELSE IF s.state \in ACTIVE_STATES
    THEN Leave(terminate_(s, "stopped", "None"))
    ELSE Leave([s EXCEPT !.state = "stopped", !.error = "None"])

\* Reactor.terminate
terminate(s) ==
    IF ~assert_state_rules(s) THEN Raise(s, "AssertionError")
    ELSE IF s.state \in ACTIVE_STATES
    THEN Leave(terminate_(s, "stopped", "None"))
    ELSE Leave(s)

\* Reactor.read.  kind is what socket.recv does: "packet" (bytes that
\* complete the packet p), "bytes" (bytes that complete no packet), "eof" (no
\* bytes), "EWOULDBLOCK" or "error".
read(s, kind, p, e) ==
    IF ~assert_state_rules(s) THEN Raise(s, "AssertionError")
    ELSE LET s1 == [s EXCEPT !.ssl_want_write = FALSE, !.ssl_want_read = FALSE]
         IN  IF s1.sock_state = "handshake" THEN Leave(set_handshake(s1, e))
             ELSE IF s1.sock_state \in {"connected", "mute"} THEN
                 IF kind \in {"packet", "bytes"}
                 THEN LET s2 == on_recv_bytes(s1, kind, p, e)
                      IN  IF s2.exc = "NoReturn" THEN s2 ELSE Leave(s2)
                 ELSE IF kind = "eof" THEN Leave(on_muted_remote(s1))
                 ELSE IF kind = "error" THEN Leave(abort_socket_error(s1))
                 ELSE Leave(s1)
             ELSE Leave(s1)

\* Reactor.write.  so_error is the socket's SO_ERROR.
write(s, so_error, e) ==
    IF ~assert_state_rules(s) THEN Raise(s, "AssertionError")
    ELSE IF s.sock_state = "connecting" THEN
        IF so_error = 0 THEN Leave(on_connect(s, e))
        ELSE Leave(s)      \* elif errno.EINPROGRESS: pass
    ELSE IF s.sock_state = "handshake" THEN Leave(set_handshake(s, e))
    ELSE IF s.sock_state \in {"connected", "deaf"}
    THEN Leave(feed_wbuf(s, e.snd))
    ELSE Leave(s)

\* Reactor.__keepalive_due_timeout, called by the scheduler
keepalive_due_timeout(s) ==
    LET s0 == [s EXCEPT !.keepalive_due_deadline = "expired"]
    IN  IF ~assert_state_rules(s0) THEN Raise(s0, "AssertionError")
        ELSE IF \/ s0.sock_state # "connected"
                \/ s0.mqtt_state # "connected"
                \/ s0.pingreq_active
        THEN Raise(s0, "AssertionError")
        ELSE Leave([s0 EXCEPT
                      !.pingreq_active = TRUE,
                      !.preflight_queue =
                          Append(@, Record("pingreq", NoPacketId, 0)),
                      !.keepalive_due_deadline = "None"])

\* Reactor.__keepalive_abort_timeout, called by the scheduler
keepalive_abort_timeout(s) ==
    LET s0 == [s EXCEPT !.keepalive_abort_deadline = "expired"]
    IN  IF ~assert_state_rules(s0) THEN Raise(s0, "AssertionError")
        ELSE IF s0.keepalive_due_deadline # "None"
        THEN Raise(s0, "AssertionError")
        ELSE IF s0.sock_state \notin {"handshake", "connected", "mute", "deaf"}
        THEN Raise(s0, "NotImplementedError")
        ELSE Leave(abort([s0 EXCEPT !.keepalive_abort_deadline = "None"],
                         "KeepaliveTimeoutReactorError"))

----------------------------------------------------------------------------
\* The inputs of the operations

NoPacket == Packet("none", NoPacketId)

\* An environment in which nothing completes.
NoEnv ==
    [res |-> "pending", conn |-> "EINPROGRESS", tls |-> FALSE, hs |-> "ok",
     snd |-> 0, host |-> NoPacketId, tail |-> "none"]

\* An operation, its inputs, and the SocketState it is called in.
Op(name, kind, p) ==
    [name |-> name, kind |-> kind, p |-> p, sock |-> sock_state,
     tail |-> "none"]

\* What socket.send does when it is offered n bytes: it raises an error, or
\* accepts some of them (0: EWOULDBLOCK).  With nothing to send there is no
\* call.
SendOutcomes(n) == IF n = 0 THEN {0} ELSE {SendError} \cup (0 .. n)

\* The bytes __launch_packets offers the socket when preflight is q and the
\* write buffer holds wbuf_size bytes.
Pending(q, wbuf_size) ==
    wbuf_size + num_new_bytes(q, NumEncoded(q, 1, wbuf_size))

\* The same once CONNECT is put in front of q on a new connection.
ConnectPending(q) == Pending(<<Record("connect", NoPacketId, 0)>> \o q, 0)

\* The environments that differ in what the code reads of them, for the
\* code that runs from a given point on; n bytes are there to send.
WithSend(B, n) == {[b EXCEPT !.snd = x] : b \in B, x \in SendOutcomes(n)}

WithHandshake(B, n) ==
    {[b EXCEPT !.hs = h] : b \in B, h \in {"want_read", "want_write", "error"}}
    \cup WithSend({[b EXCEPT !.hs = "ok"] : b \in B}, n)

WithOnConnect(B, n) ==
    WithHandshake({[b EXCEPT !.tls = TRUE] : b \in B}, n)
    \cup WithSend({[b EXCEPT !.tls = FALSE] : b \in B}, n)

WithConnect(B, n) ==
    {[b EXCEPT !.conn = c] : b \in B, c \in {"EINPROGRESS", "error"}}
    \cup WithOnConnect({[b EXCEPT !.conn = "ok"] : b \in B}, n)

WithResolution(B, n) ==
    {[b EXCEPT !.res = r] : b \in B, r \in {"error", "empty"}}
    \cup WithConnect({[b EXCEPT !.res = "ok"] : b \in B}, n)

\* A resolution that completes at once to a plain socket whose connect
\* completes at once.
PlainConnect(n) == WithSend({[NoEnv EXCEPT !.res = "ok", !.conn = "ok"]}, n)

\* The packets a server sends.  Receive-path packets carry packet id 0.
AckPackets ==
    {Packet(t, i) : t \in {"puback", "pubrec", "pubcomp", "unsuback"},
                    i \in PacketIds}
    \cup {[Packet("suback", i) EXCEPT !.nresults = n] :
              i \in PacketIds, n \in {1, 2}}

\* session_present is read of a CONNACK that accepts only.
ConnackPackets ==
    {[Packet("connack", NoPacketId) EXCEPT !.session_present = sp] :
         sp \in BOOLEAN}
    \cup {[Packet("connack", NoPacketId) EXCEPT !.return_code = rc] :
              rc \in ConnackFailCodes}

ReplyProvokingPackets ==
    {[Packet("publish", 0) EXCEPT !.qos = q] : q \in {1, 2}}
    \cup {Packet("pubrel", 0), Packet("pingreq", NoPacketId)}

OtherPackets ==
    {Packet("publish", NoPacketId), Packet("pingresp", NoPacketId),
     Packet("connect", NoPacketId)}

InPackets(room) ==
    AckPackets \cup ConnackPackets \cup OtherPackets
    \cup (IF room THEN ReplyProvokingPackets ELSE {})

\* The packets of an idle connection
KeepalivePackets(room) ==
    {Packet("connack", NoPacketId), Packet("pingresp", NoPacketId),
     Packet("publish", NoPacketId)}
    \cup (IF room THEN ReplyProvokingPackets ELSE {})

\* Bytes that are no whole packet
Tails == {"partial_header", "partial_body"}

----------------------------------------------------------------------------
\* The actions

InitWith(periods, resolvers) ==
    /\ state = "init"
    /\ sock_state = "stopped"
    /\ mqtt_state = "stopped"
    /\ error = "None"
    /\ socket = FALSE
    /\ clean_session \in BOOLEAN
    /\ keepalive_period \in periods
    /\ preflight_queue = <<>>
    /\ inflight_queue = <<>>
    /\ send_path_packet_ids = {}
    /\ wbuf = <<>>
    /\ rbuf = "empty"
    /\ tickets = <<>>
    /\ keepalive_due_deadline = "None"
    /\ keepalive_abort_deadline = "None"
    /\ pingreq_active = FALSE
    /\ ssl_want_read = FALSE
    /\ ssl_want_write = FALSE
    /\ name_resolution_future = "None"
    /\ cancelled_callback \in resolvers
    /\ op = Op("init", "none", NoPacket)
    /\ fired = <<>>
    /\ fired_in = <<>>
    /\ fired_closed = <<>>
    /\ exc = "None"
    /\ launched = <<>>
    /\ sent = <<>>
    /\ start_preflight = <<>>
    /\ pubrec_log = <<>>
    /\ pubrel_log = <<>>

\* A reactor whose name resolver runs the callback of a cancelled future
\* inside cancel().
InitIn(periods) == InitWith(periods, {"inside"})

\* A reactor with the keepalive period ReactorProperties sets by default.
Init == InitIn({10 * 60})

\* Room in preflight for one more record, of m.  Operations and inbound
\* packets that make the reactor append a record are taken while there is
\* room.
Room(m) == Len(preflight_queue) < m

StartIn(E) ==
    \E e \in IF state \in INACTIVE_STATES THEN {NoEnv} \cup E ELSE {NoEnv} :
        Becomes(start(Cur, e), Op("start", "none", NoPacket))

Start ==
    StartIn(WithResolution({NoEnv}, ConnectPending(RebuiltPreflight(Cur))))

StartPlain ==
    StartIn(PlainConnect(ConnectPending(RebuiltPreflight(Cur))))

\* The name resolution future completes.
NameResolvedIn(E) ==
    /\ name_resolution_future = "pending"
    /\ \E e \in E :
        Becomes(on_name_resolution(Cur, e),
                Op("on_name_resolution", "none", NoPacket))

NameResolved ==
    NameResolvedIn(WithResolution({NoEnv}, ConnectPending(preflight_queue)))

NameResolvedPlain ==
    NameResolvedIn(PlainConnect(ConnectPending(preflight_queue)))

StopIn(m) ==
    /\ (/\ state \in {"starting", "started"}
        /\ sock_state \notin {"name_resolution", "connecting", "handshake"})
       => Room(m)
    /\ Becomes(stop(Cur), Op("stop", "none", NoPacket))

Stop == StopIn(MaxPreflight)

StopSend == StopIn(MaxSendPreflight)

Terminate ==
    /\ op' = Op("terminate", "none", NoPacket)
    /\ Becomes(terminate(Cur), op')

\* read() when recv gives no packet
Read ==
    \E kind \in IF sock_state \in {"connected", "mute"}
                THEN {"eof", "EWOULDBLOCK", "error"}
                ELSE {"EWOULDBLOCK"},
       e \in IF sock_state = "handshake"
             THEN WithHandshake({NoEnv}, ConnectPending(preflight_queue))
             ELSE {NoEnv} :
        Becomes(read(Cur, kind, NoPacket, e), Op("read", kind, NoPacket))

\* read() when recv gives the bytes of one packet out of P; the host
\* publishes from on_pubrec while it has fewer than n tickets
ReadPacketIn(P, n) ==
    /\ sock_state \in {"connected", "mute"}
    /\ \E p \in P :
       \E e \in IF /\ p.ptype = "connack" /\ p.return_code = "accepted"
                   /\ mqtt_state = "connack" /\ sock_state = "connected"
                THEN WithSend({NoEnv}, Pending(preflight_queue, Len(wbuf)))
                ELSE IF p.ptype = "pubrec" /\ Len(tickets) < n
                THEN {NoEnv, [NoEnv EXCEPT !.host = 1]}
                ELSE {NoEnv} :
        Becomes(read(Cur, "packet", p, e), Op("read", "packet", p))

ReadPacket == ReadPacketIn(InPackets(Room(MaxPreflight)), MaxTickets)

\* The server answers the send path only.
ReadAck ==
    ReadPacketIn({Packet(t, i) : t \in {"puback", "pubrec", "pubcomp"},
                                 i \in PacketIds}
                 \cup {Packet("connack", NoPacketId)},
                 MaxSendTickets)

Write ==
    \E so_error \in IF sock_state = "connecting" THEN {0, 1} ELSE {0} :
    \E e \in IF sock_state = "connecting" /\ so_error = 0
             THEN WithOnConnect({NoEnv}, ConnectPending(preflight_queue))
             ELSE IF sock_state = "handshake"
             THEN WithHandshake({NoEnv}, ConnectPending(preflight_queue))
             ELSE IF sock_state \in {"connected", "deaf"}
             THEN WithSend({NoEnv}, Pending(preflight_queue, Len(wbuf)))
             ELSE {NoEnv} :
        Becomes(write(Cur, so_error, e),
                Op("write", IF so_error = 0 THEN "none" ELSE "so_error",
                   NoPacket))

PublishIn(n, m) ==
    /\ Len(tickets) < n
    /\ Room(m)
    /\ \E qos \in 0 .. 2 :
        Becomes(publish(Cur, qos),
                Op("publish", "none", [NoPacket EXCEPT !.qos = qos]))

Publish == PublishIn(MaxTickets, MaxPreflight)

PublishSend == PublishIn(MaxSendTickets, MaxSendPreflight)

Subscribe ==
    /\ Len(tickets) < MaxTickets
    /\ Room(MaxPreflight)
    /\ Becomes(subscribe(Cur, 1), Op("subscribe", "none", NoPacket))

Unsubscribe ==
    /\ Len(tickets) < MaxTickets
    /\ Room(MaxPreflight)
    /\ Becomes(unsubscribe(Cur, 1), Op("unsubscribe", "none", NoPacket))

\* read() when recv gives bytes that end in part of a packet, behind those
\* of a packet out of P or of none
ReadBytes(P) ==
    /\ sock_state \in {"connected", "mute"}
    /\ \E tail \in Tails :
           \/ Becomes(read(Cur, "bytes", NoPacket,
                           [NoEnv EXCEPT !.tail = tail]),
                      [Op("read", "bytes", NoPacket) EXCEPT !.tail = tail])
           \/ \E p \in P :
                  /\ rbuf = "empty"
                  /\ Becomes(read(Cur, "packet", p,
                                  [NoEnv EXCEPT !.tail = tail]),
                             [Op("read", "packet", p) EXCEPT !.tail = tail])

ReadPartial == ReadBytes(KeepalivePackets(Room(MaxKeepalivePreflight)))

ReadKeepalive ==
    ReadPacketIn(KeepalivePackets(Room(MaxKeepalivePreflight)), 0)

StopKeepalive == StopIn(MaxKeepalivePreflight)

\* The keepalive-due deadline expires.
KeepaliveDueIn(m) ==
    /\ keepalive_due_deadline = "scheduled"
    /\ Room(m)
    /\ Becomes(keepalive_due_timeout(Cur),
               Op("keepalive_due_timeout", "none", NoPacket))

KeepaliveDue == KeepaliveDueIn(MaxPreflight)

KeepaliveDueIdle == KeepaliveDueIn(MaxKeepalivePreflight)

\* The keepalive-abort deadline expires.  With a keepalive period above 0 a
\* keepalive-due deadline scheduled at the same instant expires first; with
\* the period 0 both expire at once, in the order the scheduler chooses.
KeepaliveAbort ==
    /\ keepalive_abort_deadline = "scheduled"
    /\ keepalive_period > 0 => keepalive_due_deadline # "scheduled"
    /\ Becomes(keepalive_abort_timeout(Cur),
               Op("keepalive_abort_timeout", "none", NoPacket))

Next ==
    \/ Start
    \/ NameResolved
    \/ Stop
    \/ Terminate
    \/ Read
    \/ ReadPacket
    \/ Write
    \/ Publish
    \/ Subscribe
    \/ Unsubscribe
    \/ KeepaliveDue
    \/ KeepaliveAbort

\* Every operation of the reactor, every packet a server can send.
Spec == Init /\ [][Next]_vars

\* A reactor with keepalive disabled, or not
InitKeepalive == InitIn({0, 10 * 60})

NextKeepalive ==
    \/ StartPlain
    \/ NameResolvedPlain
    \/ StopKeepalive
    \/ Terminate
    \/ Read
    \/ ReadKeepalive
    \/ ReadPartial
    \/ Write
    \/ KeepaliveDueIdle
    \/ KeepaliveAbort

\* An idle connection over a plain socket, with any keepalive period: the
\* deadlines, and bytes that arrive in any pieces.
SpecKeepalive == InitKeepalive /\ [][NextKeepalive]_vars

\* publish() of a payload of any legal size
PublishPayload ==
    /\ Len(tickets) < MaxLaunchTickets
    /\ Room(MaxLaunchPreflight)
    /\ \E qos \in 0 .. 2, len \in {PacketLen, LargePacketLen} :
        Becomes(publish_payload(Cur, qos, len),
                Op("publish", IF len = PacketLen THEN "none" ELSE "large",
                   [NoPacket EXCEPT !.qos = qos]))

\* write() on a connected socket that accepts every byte offered
WriteAccepted ==
    /\ sock_state = "connected"
    /\ Becomes(write(Cur, 0, [NoEnv EXCEPT
                                 !.snd = Pending(preflight_queue, Len(wbuf))]),
               Op("write", "none", NoPacket))

NextLaunch ==
    \/ StartPlain
    \/ NameResolvedPlain
    \/ PublishPayload
    \/ WriteAccepted

\* Launching over a plain socket that accepts every byte a write() offers
\* it, the host calling write() for as long as it has an effect.
SpecLaunch == Init /\ [][NextLaunch]_vars /\ WF_vars(WriteAccepted)

\* The callback of a cancelled name resolution future runs.
CancelledResolved ==
    /\ cancelled_callback = "pending"
    /\ Becomes(on_name_resolution_cancelled(
                   [Cur EXCEPT !.cancelled_callback = "None"]),
               Op("on_name_resolution", "cancelled", NoPacket))

\* A reactor with a name resolver of either kind.
InitResolution == InitWith({10 * 60}, {"inside", "None"})

NextResolution ==
    \/ Start
    \/ NameResolved
    \/ Stop
    \/ Terminate
    \/ Read
    \/ Write
    \/ CancelledResolved

\* Starting and stopping with a name resolver that answers at once or
\* later, and runs the callback of a cancelled future at once or later.
SpecResolution == InitResolution /\ [][NextResolution]_vars

NextSend ==
    \/ StartPlain
    \/ NameResolvedPlain
    \/ StopSend
    \/ Terminate
    \/ ReadAck
    \/ Write
    \/ PublishSend

\* The send path over a plain socket: publishes, their acknowledgements,
\* partial writes, stop, terminate and restart.
SpecSend == Init /\ [][NextSend]_vars

----------------------------------------------------------------------------
\* The properties

\* C1: in every state an operation or a deadline callback leaves the reactor
\* in, if one of ReactorState, SocketState, MqttState is in its inactive set
\* then all three are.
C1_InactiveTogether ==
    (\/ state \in INACTIVE_STATES
     \/ sock_state \in INACTIVE_SOCK_STATES
     \/ mqtt_state \in INACTIVE_MQTT_STATES)
    => (/\ state \in INACTIVE_STATES
        /\ sock_state \in INACTIVE_SOCK_STATES
        /\ mqtt_state \in INACTIVE_MQTT_STATES)

\* The keepalive-abort callback has returned and has taken a connected
\* reactor to the three inactive states.
C1_Witness ==
    /\ op.name = "keepalive_abort_timeout"
    /\ exc = "None"
    /\ state = "error"
    /\ sock_state = "stopped"
    /\ mqtt_state = "stopped"
    /\ fired = <<"on_disconnect">>

\* The packet ids of the records of q that reserve an id on the send path.
ReservedIds(q) ==
    {q[i].packet_id :
        i \in {j \in 1 .. Len(q) :
                 q[j].ptype \in {"publish", "pubrel", "subscribe",
                                 "unsubscribe"}}}

\* C2: in every reachable state the ids the send-path allocator holds are
\* the ids of the records in preflight or in flight that reserve an id; so
\* it holds none once no such record is left.
C2_AllocatorIsQueueIds ==
    send_path_packet_ids = ReservedIds(preflight_queue \o inflight_queue)

\* read() has just decoded a packet of type ptype.
Received(ptype) ==
    /\ op'.name = "read"
    /\ op'.kind = "packet"
    /\ op'.p.ptype = ptype

\* The publish records in flight, in insertion order.
InflightPublishes == SelectRecords(inflight_queue, {"publish"})

\* The packet that arrives carries the id of the head in-flight publish,
\* which is of the given qos.
AcksHeadPublish(qos) ==
    /\ InflightPublishes # <<>>
    /\ InflightPublishes[1].packet_id = op'.p.packet_id
    /\ tickets[InflightPublishes[1].tk].qos = qos

\* What a PUBACK for the head in-flight publish is to do.
PubackCompletes ==
    LET head == InflightPublishes[1]
    IN  /\ exc' = "None"
        /\ tickets'[head.tk].status = "done"
        /\ head.packet_id \notin InflightIds(inflight_queue')
        /\ head.packet_id \notin send_path_packet_ids'
        /\ fired' = <<"on_puback">>
        /\ state' = state

\* C3 as stated: a PUBACK with the id of the head in-flight publish, of
\* QoS 1, read while SocketState is connected or mute, sets the ticket done,
\* takes the record out of in-flight, releases the id, fires on_puback once
\* and leaves ReactorState as it was.
C3_PubackCompletes ==
    [][(/\ Received("puback")
        /\ sock_state \in {"connected", "mute"}
        /\ AcksHeadPublish(1))
       => PubackCompletes]_vars

\* C3 amended: the same of a PUBACK read while MqttState is connected, that
\* is after CONNACK.
C3_PubackCompletesWhenConnected ==
    [][(/\ Received("puback")
        /\ sock_state \in {"connected", "mute"}
        /\ mqtt_state = "connected"
        /\ AcksHeadPublish(1))
       => PubackCompletes]_vars

\* A PUBACK has completed a QoS-1 publish on a socket the reactor had muted.
C3_Witness ==
    /\ op.name = "read"
    /\ op.p.ptype = "puback"
    /\ sock_state = "mute"
    /\ mqtt_state = "connected"
    /\ fired = <<"on_puback">>
    /\ exc = "None"
    /\ \E tk \in 1 .. Len(tickets) :
          /\ tickets[tk].qos = 1
          /\ tickets[tk].status = "done"
          /\ tickets[tk].packet_id = op.p.packet_id
          /\ op.p.packet_id \notin send_path_packet_ids

\* C4: once the PUBCOMP that matches the PUBREL of a QoS-2 publish has been
\* accepted, the publish ticket is done and the allocator no longer holds
\* its packet id.
C4_PubcompCompletes ==
    (/\ op.name = "read"
     /\ op.p.ptype = "pubcomp"
     /\ fired = <<"on_pubcomp">>)
    => /\ op.p.packet_id \notin send_path_packet_ids
       /\ \A tk \in 1 .. Len(tickets) :
             (tickets[tk].qos = 2 /\ tickets[tk].packet_id = op.p.packet_id)
             => tickets[tk].status = "done"

\* The reactor has aborted with a protocol error, fired no cb and left every
\* ticket as it was.
RejectedWithout(cb) ==
    /\ exc' = "None"
    /\ state' = "error"
    /\ error' = "ProtocolReactorError"
    /\ \A i \in 1 .. Len(fired') : fired'[i] # cb
    /\ tickets' = tickets

\* C5: a PUBACK (a PUBREC) that does not carry the id of the first in-flight
\* publish, or whose first in-flight publish is not of QoS 1 (QoS 2), puts
\* the reactor in ReactorState error with a protocol error, fires no
\* on_puback (on_pubrec) and advances no ticket; so one is accepted only for
\* the first in-flight publish and its qos.
C5_AckOfHeadPublishOnly ==
    [][/\ (Received("puback") /\ ~AcksHeadPublish(1))
          => RejectedWithout("on_puback")
       /\ (Received("pubrec") /\ ~AcksHeadPublish(2))
          => RejectedWithout("on_pubrec")]_vars

\* After CONNACK a PUBREC came for the second of two in-flight QoS-2
\* publishes and was rejected.
C5_Witness ==
    /\ op.name = "read"
    /\ op.p.ptype = "pubrec"
    /\ state = "error"
    /\ error = "ProtocolReactorError"
    /\ fired = <<"on_disconnect">>
    /\ Len(InflightPublishes) = 2
    /\ InflightPublishes[2].packet_id = op.p.packet_id
    /\ tickets[InflightPublishes[1].tk].qos = 2
    /\ tickets[InflightPublishes[2].tk].qos = 2
    /\ tickets[InflightPublishes[2].tk].status = "pubrec"

\* The PUBREL records in flight, in insertion order.
InflightPubrels == SelectRecords(inflight_queue, {"pubrel"})

\* The packet that arrives carries the id of the head in-flight PUBREL.
AcksHeadPubrel ==
    /\ InflightPubrels # <<>>
    /\ InflightPubrels[1].packet_id = op'.p.packet_id

\* C6: a PUBCOMP that does not carry the id of the first in-flight PUBREL
\* puts the reactor in ReactorState error with a protocol error and fires no
\* on_pubcomp; one that does, read after CONNACK, takes that PUBREL out of
\* in-flight and fires on_pubcomp once.
C6_PubcompOfHeadPubrelOnly ==
    [][/\ (Received("pubcomp") /\ ~AcksHeadPubrel)
          => RejectedWithout("on_pubcomp")
       /\ (Received("pubcomp") /\ AcksHeadPubrel /\ mqtt_state = "connected")
          => /\ exc' = "None"
             /\ fired' = <<"on_pubcomp">>
             /\ op'.p.packet_id \notin InflightIds(inflight_queue')
             /\ state' = state]_vars

\* After CONNACK a PUBCOMP came for the second of two in-flight PUBRELs and
\* was rejected.
C6_Witness ==
    /\ op.name = "read"
    /\ op.p.ptype = "pubcomp"
    /\ state = "error"
    /\ error = "ProtocolReactorError"
    /\ fired = <<"on_disconnect">>
    /\ Len(InflightPubrels) = 2
    /\ InflightPubrels[2].packet_id = op.p.packet_id

\* a is a prefix of b.
IsPrefix(a, b) == Len(a) <= Len(b) /\ a = SubSeq(b, 1, Len(a))

\* The step of an accepted PUBREC puts PUBREL(packet_id) in preflight right
\* behind the records that were there when the PUBREC arrived; what follows
\* it are records of tickets the host submitted from inside on_pubrec.
PubrelInsertedAtReceiptLength ==
    LET n == Len(preflight_queue)
    IN  /\ Len(preflight_queue') > n
        /\ SubSeq(preflight_queue', 1, n) = preflight_queue
        /\ preflight_queue'[n + 1] = Record("pubrel", op'.p.packet_id, 0)
        /\ \A i \in (n + 2) .. Len(preflight_queue') :
              preflight_queue'[i].tk > Len(tickets)

\* C7: an accepted PUBREC inserts PUBREL(packet_id) into preflight at the
\* index that was the length of preflight when the PUBREC arrived, ahead of
\* what the host submits from inside on_pubrec; and the PUBRELs launched so
\* far are, in order, those of the first PUBRECs accepted.
C7_PubrelsInPubrecOrder ==
    /\ [][(Received("pubrec") /\ fired' = <<"on_pubrec">>)
            => PubrelInsertedAtReceiptLength]_vars
    /\ [] IsPrefix(pubrel_log, pubrec_log)

\* A PUBREC was accepted while a DISCONNECT waited in preflight, and the
\* host published from inside on_pubrec: the PUBREL is between the two.
C7_Witness ==
    /\ op.name = "read"
    /\ op.p.ptype = "pubrec"
    /\ fired = <<"on_pubrec">>
    /\ exc = "None"
    /\ Len(preflight_queue) = 3
    /\ preflight_queue[1].ptype = "disconnect"
    /\ preflight_queue[2] = Record("pubrel", op.p.packet_id, 0)
    /\ preflight_queue[3].ptype = "publish"
    /\ preflight_queue[3].tk = Len(tickets)

\* C8: a record launched by the last operation had the last byte of its
\* encoding accepted by the socket in the flush of that launch: the bytes
\* flushed reach the offset in the write buffer at which its encoding ends.
C8_LaunchedWhenLastByteSent ==
    \A i \in 1 .. Len(launched) :
        launched[i].flushed >= launched[i].end_offset

\* start() is called on a reactor that is not running and returns.
Starts ==
    /\ op'.name = "start"
    /\ state \in INACTIVE_STATES
    /\ exc' = "None"

\* The publishes in flight when the connection ended are, in their order,
\* the front of the preflight queue __start builds; each keeps its packet id
\* reserved and has dupe set.
InflightPublishesResumed ==
    /\ IsPrefix(InflightPublishes, start_preflight')
    /\ \A i \in 1 .. Len(InflightPublishes) :
          LET rec == InflightPublishes[i]
          IN  /\ rec.packet_id \in send_path_packet_ids'
              /\ tickets'[rec.tk].packet_id = rec.packet_id
              /\ tickets'[rec.tk].status = tickets[rec.tk].status
              /\ tickets'[rec.tk].status \in {"puback", "pubrec"}
              /\ tickets'[rec.tk].dupe

\* A ticket is created with dupe false, and dupe becomes true only in a
\* start, of a publish that was in flight.
DupeSetByStartOnly ==
    /\ \A tk \in (Len(tickets) + 1) .. Len(tickets') : ~tickets'[tk].dupe
    /\ \A tk \in 1 .. Len(tickets) :
          (tickets'[tk].dupe /\ ~tickets[tk].dupe)
          => /\ op'.name = "start"
             /\ \E i \in 1 .. Len(InflightPublishes) :
                   InflightPublishes[i].tk = tk

\* A publish sent again is launched behind the CONNECT of its connection.
ResentBehindConnect ==
    \A i \in 1 .. Len(launched') :
        (/\ launched'[i].rec.ptype = "publish"
         /\ tickets[launched'[i].rec.tk].dupe)
        => /\ \A j \in 1 .. Len(preflight_queue') :
                 preflight_queue'[j].ptype # "connect"
           /\ \E k \in 1 .. Len(sent') :
                 /\ sent'[k].ptype = "publish"
                 /\ sent'[k].packet_id = launched'[i].rec.packet_id
                 /\ sent'[k].dupe

\* C9: with clean_session false, the QoS-1 publishes with status puback and
\* the QoS-2 publishes with status pubrec that are in flight when the
\* connection ends are, once the next start has run, the front of preflight
\* in their order, their packet ids still reserved and dupe true, dupe
\* having been false until then; they are sent again behind CONNECT, and
\* the PUBACK of the first in-flight one then completes it.
C9_SessionResumed ==
    [][~clean_session =>
         /\ Starts => InflightPublishesResumed
         /\ DupeSetByStartOnly
         /\ ResentBehindConnect
         /\ (/\ Received("puback")
             /\ mqtt_state = "connected"
             /\ AcksHeadPublish(1)
             /\ tickets[InflightPublishes[1].tk].dupe)
            => PubackCompletes]_vars

\* With clean_session false a start has found a QoS-1 and a QoS-2 publish
\* in flight and has put both, now dupes, at the front of preflight.
C9_Witness ==
    /\ ~clean_session
    /\ op.name = "start"
    /\ exc = "None"
    /\ Len(start_preflight) = 2
    /\ \A i \in 1 .. 2 :
          /\ start_preflight[i].ptype = "publish"
          /\ tickets[start_preflight[i].tk].dupe
          /\ start_preflight[i].packet_id \in send_path_packet_ids
    /\ tickets[start_preflight[1].tk].status = "puback"
    /\ tickets[start_preflight[2].tk].status = "pubrec"

\* C10: with clean_session true, a start discards the records that were in
\* flight when the connection ended and releases their packet ids: none of
\* them is in the preflight queue it builds, none of their ids is held.
C10_CleanSessionDiscards ==
    [][(clean_session /\ Starts)
       => /\ \A i \in 1 .. Len(inflight_queue) :
                \A j \in 1 .. Len(start_preflight') :
                    start_preflight'[j] # inflight_queue[i]
          /\ ReservedIds(inflight_queue) \cap send_path_packet_ids' = {}]_vars


\* C11: with clean_session false, a PUBREL that no PUBCOMP has completed when
\* the connection ends, whether it waits in preflight or has been launched
\* into in-flight, is in the preflight queue the next start builds, with its
\* packet id, to be sent again.
C11_PubrelPersists ==
    [][(~clean_session /\ Starts)
       => \A rec \in {preflight_queue[i] : i \in 1 .. Len(preflight_queue)}
                     \cup {inflight_queue[i] : i \in 1 .. Len(inflight_queue)} :
             rec.ptype = "pubrel"
             => \E j \in 1 .. Len(start_preflight') :
                   start_preflight'[j] = rec]_vars


\* The operation has returned and has fired no callback; ReactorState,
\* SocketState, MqttState, the queues, the write buffer, the deadlines and
\* the error are as they were.
NoEffect ==
    /\ exc' = "None"
    /\ fired' = <<>>
    /\ UNCHANGED <<state, sock_state, mqtt_state, error, socket,
                   preflight_queue, inflight_queue, wbuf,
                   send_path_packet_ids, tickets,
                   keepalive_due_deadline, keepalive_abort_deadline,
                   pingreq_active>>

\* C12: start() in an active ReactorState, stop() in stopped or error, and
\* terminate() in an inactive ReactorState change nothing and fire no
\* callback.
C12_Idempotent ==
    [][/\ (op'.name = "start" /\ state \in ACTIVE_STATES) => NoEffect
       /\ (op'.name = "stop" /\ state \in {"stopped", "error"}) => NoEffect
       /\ (op'.name = "terminate" /\ state \in INACTIVE_STATES)
          => NoEffect]_vars

\* start() has returned on a reactor that is stopping on a muted socket with
\* an unacknowledged publish in flight.
C12_Witness ==
    /\ op.name = "start"
    /\ exc = "None"
    /\ fired = <<>>
    /\ state = "stopping"
    /\ sock_state = "mute"
    /\ inflight_queue # <<>>
    /\ keepalive_abort_deadline = "scheduled"


\* stop() has returned at once with the reactor stopped: the three state
\* variables are stopped, no DISCONNECT waits, on_connect_fail has fired once
\* and on_disconnect has not.
StoppedAtOnce ==
    /\ exc' = "None"
    /\ state' = "stopped"
    /\ sock_state' = "stopped"
    /\ mqtt_state' = "stopped"
    /\ error' = "None"
    /\ \A i \in 1 .. Len(preflight_queue') :
          preflight_queue'[i].ptype # "disconnect"
    /\ fired' = <<"on_connect_fail">>

\* C13: stop() while SocketState is name_resolution, connecting or handshake
\* terminates at once; stop() in init moves ReactorState to stopped.
C13_StopBeforeConnected ==
    [][/\ (/\ op'.name = "stop"
           /\ sock_state \in {"name_resolution", "connecting", "handshake"})
          => StoppedAtOnce
       /\ (op'.name = "stop" /\ state = "init")
          => (exc' = "None" /\ state' = "stopped" /\ fired' = <<>>)]_vars

\* stop() has ended a TLS handshake that was waiting to read.
C13_Witness ==
    /\ op.name = "stop"
    /\ exc = "None"
    /\ state = "stopped"
    /\ sock_state = "stopped"
    /\ mqtt_state = "stopped"
    /\ fired = <<"on_connect_fail">>
    /\ ssl_want_read


Disconnect == Record("disconnect", NoPacketId, 0)

\* The last operation launched a DISCONNECT.
LaunchedDisconnect ==
    \E i \in 1 .. Len(launched') : launched'[i].rec = Disconnect

\* C14: stop() in starting or started on a connected socket sets ReactorState
\* stopping and appends one DISCONNECT to preflight, a further stop() while
\* stopping appends none, so preflight never holds two; the operation that
\* launches the DISCONNECT leaves SocketState mute, the keepalive-due
\* deadline cancelled and the keepalive-abort deadline in place; from then on
\* an inbound packet that is accepted leaves ReactorState stopping, and the
\* peer's EOF leaves it stopped without an error.
C14_GracefulStop ==
    /\ [][/\ (/\ op'.name = "stop"
              /\ state \in {"starting", "started"}
              /\ sock_state = "connected")
             => /\ exc' = "None"
                /\ state' = "stopping"
                /\ preflight_queue' = Append(preflight_queue, Disconnect)
                /\ UNCHANGED <<sock_state, mqtt_state, inflight_queue>>
          /\ (op'.name = "stop" /\ state = "stopping") => NoEffect
          /\ LaunchedDisconnect
             => /\ exc' = "None"
                /\ state' = "stopping"
                /\ sock_state' = "mute"
                /\ keepalive_due_deadline' = "None"
                /\ keepalive_abort_deadline' # "None"
          /\ (/\ sock_state = "mute"
              /\ op'.name = "read"
              /\ op'.kind = "packet"
              /\ state' # "error")
             => (state' = "stopping" /\ sock_state' = "mute")
          /\ (sock_state = "mute" /\ op'.name = "read" /\ op'.kind = "eof")
             => /\ exc' = "None"
                /\ state' = "stopped"
                /\ error' = "None"]_vars
    /\ [](Len(SelectRecords(preflight_queue, {"disconnect"})) <= 1)
    /\ [](sock_state = "mute" => state = "stopping")

\* The peer has closed a connection the reactor had muted: the reactor has
\* stopped without an error.
C14_Witness ==
    /\ op.name = "read"
    /\ op.kind = "eof"
    /\ exc = "None"
    /\ state = "stopped"
    /\ error = "None"
    /\ fired = <<"on_disconnect">>


\* read() has just decoded a CONNACK with return code accepted, in MqttState
\* connack, that does not report a session the client did not ask for.
ReceivedConnackAccepted ==
    /\ Received("connack")
    /\ op'.p.return_code = "accepted"
    /\ mqtt_state = "connack"
    /\ ~(op'.p.session_present /\ clean_session)

\* ReactorState after an accepted CONNACK.
StateAfterConnack == IF state = "starting" THEN "started" ELSE "stopping"

\* read() returns with the reactor connected at the MQTT level.
ConnackTaken ==
    /\ exc' = "None"
    /\ mqtt_state' = "connected"
    /\ state \in {"starting", "stopping"}
    /\ state' = StateAfterConnack
    /\ (sock_state = "mute" => sock_state' = "mute")
    /\ error' = "None"
    /\ fired' = <<"on_connack">>
    /\ fired_in' = <<StateAfterConnack>>

ConnackTakenThenSendFailed ==
    /\ exc' = "None"
    /\ sock_state = "connected"
    /\ state' = "error"
    /\ error' = "SocketReactorError"
    /\ mqtt_state' = "stopped"
    /\ fired' = <<"on_connack", "on_disconnect">>
    /\ fired_in' = <<StateAfterConnack, "error">>

C16_SecondConnackRejected ==
    [][/\ (Received("connack") /\ mqtt_state = "connected")
          => /\ exc' = "None"
             /\ state' = "error"
             /\ error' = "ProtocolReactorError"
             /\ fired' = <<"on_disconnect">>
       /\ (\E i \in 1 .. Len(fired') : fired'[i] = "on_connack")
          => /\ Received("connack")
             /\ mqtt_state = "connack"
             /\ mqtt_state' # "connack"
             /\ Len(SelectSeq(fired', LAMBDA cb : cb = "on_connack")) = 1
       /\ (mqtt_state' = "connack" /\ mqtt_state # "connack")
          => op'.name \in {"start", "on_name_resolution"}]_vars

\* A second CONNACK has arrived on a connection the reactor had muted and
\* has been rejected.
C16_Witness ==
    /\ op.name = "read"
    /\ op.sock = "mute"
    /\ op.p.ptype = "connack"
    /\ op.p.return_code = "accepted"
    /\ exc = "None"
    /\ state = "error"
    /\ error = "ProtocolReactorError"
    /\ fired = <<"on_disconnect">>


\* C17: with clean_session true, a CONNACK(session_present = true, accepted)
\* that answers CONNECT aborts the reactor: ReactorState error with a
\* protocol error, MqttState goes from connack to stopped without being
\* connected, on_connect_fail is called and on_connack is not.
C17_UnexpectedSessionPresent ==
    [][(/\ Received("connack")
        /\ op'.p.return_code = "accepted"
        /\ op'.p.session_present
        /\ clean_session
        /\ mqtt_state = "connack")
       => /\ exc' = "None"
          /\ state' = "error"
          /\ error' = "ProtocolReactorError"
          /\ mqtt_state' = "stopped"
          /\ sock_state' = "stopped"
          /\ fired' = <<"on_connect_fail">>
          /\ fired_in' = <<"error">>]_vars

\* A reactor that asked for a clean session has aborted on a CONNACK that
\* reports a session.
C17_Witness ==
    /\ clean_session
    /\ op.name = "read"
    /\ op.p.ptype = "connack"
    /\ op.p.return_code = "accepted"
    /\ op.p.session_present
    /\ exc = "None"
    /\ state = "error"
    /\ error = "ProtocolReactorError"
    /\ fired = <<"on_connect_fail">>


\* C18: a CONNACK with a return code other than accepted, received in
\* MqttState connack, puts the reactor in ReactorState error with a
\* ConnectError that carries that return code; MqttState goes from connack
\* to stopped, on_connack is not called.
C18_ConnackRefused ==
    [][(/\ Received("connack")
        /\ op'.p.return_code # "accepted"
        /\ mqtt_state = "connack")
       => /\ exc' = "None"
          /\ state' = "error"
          /\ error' = ConnectReactorError(op'.p.return_code)
          /\ mqtt_state' = "stopped"
          /\ fired' = <<"on_connect_fail">>]_vars

\* The server has refused the connection because it is unavailable.
C18_Witness ==
    /\ op.name = "read"
    /\ op.p.ptype = "connack"
    /\ op.p.return_code = "fail_server_unavailable"
    /\ exc = "None"
    /\ state = "error"
    /\ error = ConnectReactorError("fail_server_unavailable")
    /\ error # ConnectReactorError("fail_not_authorized")
    /\ fired = <<"on_connect_fail">>


\* The packets other than CONNACK that a server can send.
NonConnackTypes ==
    {"publish", "suback", "unsuback", "puback", "pubrec", "pubrel",
     "pubcomp", "pingreq", "pingresp"}

\* C19: a PUBLISH, SUBACK, UNSUBACK, PUBACK, PUBREC, PUBREL, PUBCOMP,
\* PINGREQ or PINGRESP read while MqttState is connack, on a connected or a
\* muted socket, puts the reactor in ReactorState error with a protocol
\* error; the host gets no callback for the packet (on_connect_fail tells it
\* of the abort), no ticket changes and nothing is queued in reply.
C19_PacketBeforeConnack ==
    [][(/\ op'.name = "read"
        /\ op'.kind = "packet"
        /\ op'.p.ptype \in NonConnackTypes
        /\ mqtt_state = "connack")
       => /\ sock_state \in {"connected", "mute"}
          /\ exc' = "None"
          /\ state' = "error"
          /\ error' = "ProtocolReactorError"
          /\ fired' = <<"on_connect_fail">>
          /\ UNCHANGED <<tickets, preflight_queue, inflight_queue,
                         send_path_packet_ids>>]_vars

\* A PUBLISH of QoS 1 arrived before CONNACK on a socket the reactor had
\* muted, and was rejected.
C19_Witness ==
    /\ op.name = "read"
    /\ op.sock = "mute"
    /\ op.p.ptype = "publish"
    /\ op.p.qos = 1
    /\ exc = "None"
    /\ state = "error"
    /\ error = "ProtocolReactorError"
    /\ fired = <<"on_connect_fail">>


\* write() is called in SocketState connecting and finds SO_ERROR zero.
WriteFindsConnected ==
    /\ op'.name = "write"
    /\ op'.kind = "none"
    /\ sock_state = "connecting"

\* write() is called in SocketState connecting and finds SO_ERROR nonzero.
WriteFindsSoError ==
    /\ op'.name = "write"
    /\ op'.kind = "so_error"
    /\ sock_state = "connecting"

\* The socket is promoted: to handshake, or to connected with CONNECT
\* encoded for sending; or the handshake or the send has failed at once and
\* the reactor has aborted.
Promoted ==
    /\ exc' = "None"
    /\ \/ sock_state' = "handshake"
       \/ /\ sock_state' = "connected"
          /\ \/ \E i \in 1 .. Len(wbuf') : wbuf'[i].ptype = "connect"
             \/ \E i \in 1 .. Len(sent') : sent'[i].ptype = "connect"
       \/ state' = "error"

\* C20: write() in SocketState connecting reads SO_ERROR; with 0 the socket
\* is promoted, to handshake or to connected with CONNECT on its way; with a
\* nonzero value the reactor aborts to ReactorState error with a socket
\* error and does not remain in connecting.
C20_WriteWhileConnecting ==
    [][/\ WriteFindsConnected => Promoted
       /\ WriteFindsSoError
          => /\ exc' = "None"
             /\ state' = "error"
             /\ error' = "SocketReactorError"
             /\ sock_state' # "connecting"]_vars

----------------------------------------------------------------------------
\* Keepalive

\* The keepalive-abort deadline expires on a socket that is in handshake,
\* connected or mute.
AbortDeadlineExpires ==
    /\ op'.name = "keepalive_abort_timeout"
    /\ op'.sock \in {"handshake", "connected", "mute"}

\* read() has taken bytes off the socket and the reactor is still active.
BytesKeepActive ==
    /\ op'.name = "read"
    /\ op'.kind \in {"packet", "bytes"}
    /\ exc' = "None"
    /\ state' \in ACTIVE_STATES

\* Every read that receives bytes and leaves the reactor active leaves the
\* keepalive-abort deadline scheduled.
AbortDeadlineRestarted ==
    [][BytesKeepActive => keepalive_abort_deadline' = "scheduled"]_vars

\* C21: when the keepalive-abort deadline expires while the socket is in
\* handshake, connected or mute, the reactor closes the connection and ends
\* in the error state with KeepaliveTimeoutReactorError; and every read that
\* receives bytes leaves the abort deadline scheduled anew.
C21_KeepaliveAbort ==
    /\ [][AbortDeadlineExpires =>
              /\ exc' = "None"
              /\ state' = "error"
              /\ error' = "KeepaliveTimeoutReactorError"
              /\ sock_state' = "stopped"]_vars
    /\ AbortDeadlineRestarted

\* The keepalive-due deadline expires on a connected socket.
DueDeadlineExpires ==
    /\ op'.name = "keepalive_due_timeout"
    /\ op'.sock = "connected"

\* The expiry queues a PINGREQ and clears the deadline.
PingreqQueued ==
    /\ exc' = "None"
    /\ preflight_queue' =
           Append(preflight_queue, Record("pingreq", NoPacketId, 0))
    /\ want_write(Cur')
    /\ pingreq_active'
    /\ keepalive_due_deadline' = "None"

\* C22: with a keepalive period above 0 the keepalive-due deadline runs
\* whenever the socket is connected and no PINGREQ is outstanding, from the
\* moment the socket connects and so while the CONNACK is awaited; its
\* expiry appends a PINGREQ to preflight, sets the pending-pingreq flag and
\* clears the deadline.
C22_KeepaliveDue ==
    /\ []((/\ sock_state = "connected"
           /\ keepalive_period > 0
           /\ ~pingreq_active) => keepalive_due_deadline = "scheduled")
    /\ [][DueDeadlineExpires /\ keepalive_period > 0 => PingreqQueued]_vars

\* C23: with the keepalive period 0 no keepalive-due deadline is ever
\* scheduled and no PINGREQ is ever queued, while the expiry of the
\* keepalive-abort deadline still ends the connection with
\* KeepaliveTimeoutReactorError.
C23_KeepaliveDisabled ==
    /\ [](keepalive_period = 0 =>
              /\ keepalive_due_deadline = "None"
              /\ ~pingreq_active
              /\ \A i \in 1..Len(preflight_queue) :
                     preflight_queue[i].ptype # "pingreq")
    /\ [][AbortDeadlineExpires /\ keepalive_period = 0 =>
              /\ state' = "error"
              /\ error' = "KeepaliveTimeoutReactorError"]_vars

----------------------------------------------------------------------------
\* Termination callbacks

LifecycleCallbacks == {"on_connect_fail", "on_disconnect"}

IsLifecycle(cb) == cb \in LifecycleCallbacks

\* The step takes the reactor from an active ReactorState to an inactive
\* one: the reactor was active before it, or start() has made it so.
Deactivates ==
    /\ state \in ACTIVE_STATES \/ op'.name = "start"
    /\ state' \in INACTIVE_STATES

\* The lifecycle callback due when the step ends the connection: the CONNACK
\* had not been accepted, or it had, before the step or within it.
DueCallback ==
    IF /\ mqtt_state = "connack" \/ state \in INACTIVE_STATES
       /\ ~(\E i \in 1..Len(fired') : fired'[i] = "on_connack")
    THEN "on_connect_fail"
    ELSE "on_disconnect"

\* C24: a step that takes the reactor from an active to an inactive
\* ReactorState fires one lifecycle callback, once and as the last thing it
\* does: on_connect_fail when the CONNACK had not been accepted,
\* on_disconnect when it had.  At the callback the socket is closed, the
\* deadlines are cancelled, the buffers are empty and ReactorState is already
\* stopped, or error with the cause recorded.  No other step fires a
\* lifecycle callback.
C24_OneLifecycleCallback ==
    /\ [][Deactivates =>
              /\ exc' = "None"
              /\ SelectSeq(fired', IsLifecycle) = <<DueCallback>>
              /\ fired'[Len(fired')] = DueCallback
              /\ fired_closed'[Len(fired')]
              /\ fired_in'[Len(fired')] = state'
              /\ state' \in {"stopped", "error"}
              /\ state' = "error" <=> error' # "None"
              /\ Closed(Cur') /\ mqtt_state' = "stopped"]_vars
    /\ [][~Deactivates => SelectSeq(fired', IsLifecycle) = <<>>]_vars

\* terminate() has ended a connection that awaited its CONNACK, and the
\* host saw on_connect_fail on the closed reactor.
C24_Witness ==
    /\ op.name = "terminate"
    /\ state = "stopped"
    /\ fired = <<"on_connect_fail">>
    /\ fired_closed = <<TRUE>>
    /\ fired_in = <<"stopped">>

\* A read has accepted the CONNACK and then lost the connection, and the
\* host saw on_connack and then on_disconnect.
C24_WitnessDisconnect ==
    /\ op.name = "read"
    /\ state = "error"
    /\ fired = <<"on_connack", "on_disconnect">>
    /\ fired_closed = <<FALSE, TRUE>>

----------------------------------------------------------------------------
\* The error property

\* C25: the error property holds a cause exactly while ReactorState is
\* error: an abort records it, a start() out of the error state clears it,
\* and a stop() or terminate() that ends in stopped leaves it None.
C25_ErrorIffErrorState == (error # "None") <=> (state = "error")

\* An aborted reactor holds the cause of the abort.
C25_Witness ==
    /\ op.name = "keepalive_abort_timeout"
    /\ state = "error"
    /\ error = "KeepaliveTimeoutReactorError"

----------------------------------------------------------------------------
\* SUBACK and UNSUBACK

\* The in-flight records of type ptype under the id of the packet that
\* arrives.
InflightRequest(ptype) ==
    get_packet_type(inflight_queue, op'.p.packet_id, ptype)

\* The packet that arrives after CONNACK answers an in-flight request of type
\* ptype; a SUBACK carries as many results as the SUBSCRIBE has topics.
Answers(ptype) ==
    /\ mqtt_state = "connected"
    /\ InflightRequest(ptype) # <<>>
    /\ ptype = "subscribe" =>
           op'.p.nresults = tickets[InflightRequest(ptype)[1].tk].ntopics

\* The request of type ptype is completed: its ticket is done, its id is
\* free and no longer in flight, and cb is the one callback fired.
Completed(ptype, cb) ==
    /\ exc' = "None"
    /\ state' = state
    /\ error' = "None"
    /\ fired' = <<cb>>
    /\ tickets'[InflightRequest(ptype)[1].tk].status = "done"
    /\ op'.p.packet_id \notin send_path_packet_ids'
    /\ inflight_queue' = RemoveId(inflight_queue, op'.p.packet_id)
    /\ op'.p.packet_id \notin InflightIds(inflight_queue')

\* C26: a SUBACK (an UNSUBACK) is accepted exactly when in-flight holds a
\* SUBSCRIBE (an UNSUBSCRIBE) under its packet id and, for a SUBACK, the
\* number of results equals the number of topics subscribed.  Accepting
\* marks the ticket done, releases the id, removes the in-flight record and
\* fires on_suback (on_unsuback) once; any other SUBACK or UNSUBACK ends the
\* reactor in error with a protocol error and fires neither callback.
C26_SubackMatchesRequest ==
    [][/\ (Received("suback") /\ Answers("subscribe"))
          => Completed("subscribe", "on_suback")
       /\ (Received("suback") /\ ~Answers("subscribe"))
          => RejectedWithout("on_suback")
       /\ (Received("unsuback") /\ Answers("unsubscribe"))
          => Completed("unsubscribe", "on_unsuback")
       /\ (Received("unsuback") /\ ~Answers("unsubscribe"))
          => RejectedWithout("on_unsuback")]_vars

\* A SUBACK with two results came for the in-flight SUBSCRIBE of one topic
\* and was rejected.
C26_Witness ==
    /\ op.name = "read"
    /\ op.p.ptype = "suback"
    /\ op.p.nresults = 2
    /\ state = "error"
    /\ error = "ProtocolReactorError"
    /\ fired = <<"on_disconnect">>
    /\ get_packet_type(inflight_queue, op.p.packet_id, "subscribe") # <<>>
    /\ tickets[1].ntopics = 1
    /\ tickets[1].status # "done"

\* A SUBACK with one result came for the in-flight SUBSCRIBE of one topic
\* and completed it.
C26_WitnessAccepted ==
    /\ op.name = "read"
    /\ op.p.ptype = "suback"
    /\ fired = <<"on_suback">>
    /\ tickets[1].status = "done"
    /\ send_path_packet_ids = {}
    /\ inflight_queue = <<>>

----------------------------------------------------------------------------
\* The receive path

\* The step appends to preflight the records acks, and nothing else.
Appends(acks) == preflight_queue' = preflight_queue \o acks

\* The acknowledgement a PUBLISH of the packet's qos calls for.
PublishAck ==
    IF op'.p.qos = 0 THEN <<>>
    ELSE <<Record(IF op'.p.qos = 1 THEN "puback" ELSE "pubrec",
                  op'.p.packet_id, 0)>>

\* C27: after CONNACK a PUBLISH that arrives is handed to on_publish once;
\* then, on a connected socket, a PUBACK (qos 1) or PUBREC (qos 2) with its
\* packet id goes to the tail of preflight, and on a muted socket nothing is
\* appended and nothing written.  A PUBREL appends a PUBCOMP with its id.  A
\* PINGREQ appends a PINGRESP on a connected socket and nothing on a muted
\* one.
C27_ReceivePath ==
    [][/\ (Received("publish") /\ mqtt_state = "connected") =>
              /\ fired' = <<"on_publish">>
              /\ Appends(IF sock_state = "connected" THEN PublishAck
                         ELSE <<>>)
              /\ sent' = <<>>
              /\ wbuf' = wbuf
       /\ (Received("pubrel") /\ mqtt_state = "connected") =>
              /\ fired' = <<"on_pubrel">>
              /\ Appends(<<Record("pubcomp", op'.p.packet_id, 0)>>)
       /\ (Received("pingreq") /\ mqtt_state = "connected") =>
              /\ fired' = <<>>
              /\ Appends(IF sock_state = "connected"
                         THEN <<Record("pingresp", NoPacketId, 0)>>
                         ELSE <<>>)]_vars

\* A PUBLISH of qos 2 arrived on a connected socket while a PINGREQ waited
\* in preflight, and its PUBREC is queued behind the PINGREQ.
C27_Witness ==
    /\ op.name = "read"
    /\ op.p.ptype = "publish"
    /\ op.p.qos = 2
    /\ op.sock = "connected"
    /\ fired = <<"on_publish">>
    /\ Len(preflight_queue) = 2
    /\ preflight_queue[1].ptype = "pingreq"
    /\ preflight_queue[2] = Record("pubrec", op.p.packet_id, 0)

\* A PUBLISH of qos 1 arrived on a muted socket, was delivered and is not
\* acknowledged.
C27_WitnessMute ==
    /\ op.name = "read"
    /\ op.p.ptype = "publish"
    /\ op.p.qos = 1
    /\ op.sock = "mute"
    /\ fired = <<"on_publish">>
    /\ preflight_queue = <<>>

\* read() has taken bytes off the socket.
ReadBytesTaken ==
    /\ op'.name = "read"
    /\ op'.kind \in {"packet", "bytes"}

\* C28: every read() returns; one that takes bytes off the socket and leaves
\* the reactor active consumes the whole packets and leaves in the receive
\* buffer the part of a packet the bytes end with, be it part of a fixed
\* header or a fixed header with part of its body.
C28_ReadReturns ==
    [][ReadBytesTaken =>
           /\ exc' # "NoReturn"
           /\ (exc' = "None" /\ state' \in ACTIVE_STATES) =>
                  rbuf' = IF op'.tail = "none" THEN "empty" ELSE op'.tail]_vars

\* A read() that ends with part of a fixed header returns and keeps it.
PartialHeaderKept ==
    [][(ReadBytesTaken /\ op'.tail = "partial_header") =>
           /\ exc' # "NoReturn"
           /\ (exc' = "None" /\ state' \in ACTIVE_STATES) =>
                  rbuf' = "partial_header"]_vars

----------------------------------------------------------------------------
\* Publishes of QoS 0

\* publish() with qos 0 has returned a ticket.
PublishedQos0 ==
    /\ op'.name = "publish"
    /\ op'.p.qos = 0
    /\ exc' = "None"

\* The ticket is the new last one; it is in preflight, with an id the
\* allocator did not hold and now holds.
SubmittedWithId ==
    /\ Len(tickets') = Len(tickets) + 1
    /\ LET t == tickets'[Len(tickets')]
       IN  /\ t.kind = "publish" /\ t.qos = 0
           /\ t.status = "preflight"
           /\ t.packet_id \in PacketIds
           /\ t.packet_id \notin send_path_packet_ids
           /\ t.packet_id \in send_path_packet_ids'
           /\ preflight_queue' =
                  Append(preflight_queue,
                         Record("publish", t.packet_id, Len(tickets')))
    /\ sock_state = "connected" => want_write(Cur')

\* The records the step launched that are publishes of QoS 0
LaunchedQos0 ==
    {launched'[i].rec : i \in {j \in 1 .. Len(launched') :
        /\ launched'[j].rec.ptype = "publish"
        /\ tickets[launched'[j].rec.tk].qos = 0}}

----------------------------------------------------------------------------
\* Launch progress

\* C30: on a connected socket that accepts every byte offered, repeated
\* write() calls launch the record at the head of preflight whatever the
\* length it encodes to, so that preflight and the write buffer drain and
\* want_write becomes false.
C30_LaunchProgress ==
    (sock_state = "connected" /\ preflight_queue # <<>>)
        ~> (sock_state # "connected" \/ ~want_write(Cur))

\* The same of records that encode to no more than max_buf_size bytes
SmallRecordsLaunch ==
    (/\ sock_state = "connected"
     /\ preflight_queue # <<>>
     /\ \A i \in 1 .. Len(preflight_queue) :
            preflight_queue[i].len <= max_buf_size)
        ~> (\/ sock_state # "connected"
            \/ ~want_write(Cur)
            \/ \E i \in 1 .. Len(preflight_queue) :
                   preflight_queue[i].len > max_buf_size)

\* write() is called on a connected socket with a record in preflight.
WriteWithPreflight ==
    /\ op'.name = "write"
    /\ sock_state = "connected"
    /\ preflight_queue # <<>>

\* The write has launched a record or emptied some of the write buffer, or
\* has ended the connection.
WriteProgress ==
    \/ sock_state' # "connected"
    \/ Len(preflight_queue') < Len(preflight_queue)
    \/ Len(wbuf') < Len(wbuf)

\* C30, as what one write() owes to it: on a connected socket that accepts
\* every byte offered, a write() with a record in preflight launches a record
\* or sends bytes the write buffer held, whatever the length the head of
\* preflight encodes to.  A write() that does neither leaves the reactor as
\* it found it, and so does every write() after it.
C30_WriteMakesProgress == [][WriteWithPreflight => WriteProgress]_vars

\* The same of a preflight whose records encode to no more than max_buf_size
\* bytes each
SmallRecordsProgress ==
    [][(/\ WriteWithPreflight
        /\ \A i \in 1 .. Len(preflight_queue) :
               preflight_queue[i].len <= max_buf_size) => WriteProgress]_vars

----------------------------------------------------------------------------
\* C31: in every state an operation or a deadline callback leaves, a
\* SocketState of name_resolution, connecting or handshake goes with
\* ReactorState starting and MqttState connack.
C31_EarlySocketStates ==
    sock_state \in {"name_resolution", "connecting", "handshake"}
        => state = "starting" /\ mqtt_state = "connack"

\* A write promoted the connecting socket to the TLS handshake, and a read
\* found the handshake still wanting.
C31_Witness ==
    /\ op.name = "read"
    /\ op.sock = "handshake"
    /\ sock_state = "handshake"
    /\ exc = "None"

\* A start left the name resolution pending.
C31_WitnessResolution ==
    /\ op.name = "start"
    /\ sock_state = "name_resolution"
    /\ exc = "None"

----------------------------------------------------------------------------
\* C32: in every reachable state a PINGREQ is pending only when SocketState
\* is connected or deaf; it is not pending in mute, stopped, name_resolution,
\* connecting or handshake.
C32_PingreqConnectedOrDeaf ==
    pingreq_active => sock_state \in {"connected", "deaf"}

\* C32, as the reactor keeps it: in every reachable state a PINGREQ is
\* pending only when SocketState is connected, deaf or mute; a PINGREQ that
\* is pending when DISCONNECT is launched stays pending in mute.
C32_PingreqWhileSocketOpen ==
    pingreq_active => sock_state \in {"connected", "deaf", "mute"}

\* The write that launched DISCONNECT left the PINGREQ pending.
C32_Witness ==
    /\ op.name = "write"
    /\ op.sock = "connected"
    /\ sock_state = "mute"
    /\ pingreq_active
    /\ exc = "None"

----------------------------------------------------------------------------
\* The reactor refers to a keepalive-abort deadline exactly when SocketState
\* is handshake, connected, mute or deaf.
AbortDeadlineKept ==
    keepalive_abort_deadline # "None"
        <=> sock_state \in {"handshake", "connected", "mute", "deaf"}

\* C33: in every state an operation or a deadline callback leaves, a
\* keepalive-abort deadline is scheduled if and only if SocketState is
\* handshake, connected, mute or deaf; none exists in stopped,
\* name_resolution or connecting, and none survives a terminate or abort.
C33_AbortDeadlineScheduled ==
    keepalive_abort_deadline = "scheduled"
        <=> sock_state \in {"handshake", "connected", "mute", "deaf"}

----------------------------------------------------------------------------
\* C34: in every state an operation or a deadline callback leaves, the
\* reactor has a keepalive-due deadline only when SocketState is connected or
\* deaf: the launch of DISCONNECT cancels it, bytes received in mute do not
\* create it, and a terminate or abort does not leave it.
C34_DueDeadlineConnectedOrDeaf ==
    keepalive_due_deadline # "None" => sock_state \in {"connected", "deaf"}

\* Bytes were received in mute after a due deadline had been scheduled and
\* a PINGREQ sent on this connection.
C34_Witness ==
    /\ op.name = "read"
    /\ op.kind \in {"packet", "bytes"}
    /\ op.sock = "mute"
    /\ sock_state = "mute"
    /\ pingreq_active
    /\ keepalive_due_deadline = "None"
    /\ exc = "None"

----------------------------------------------------------------------------
\* C35: in every state a public operation leaves, want_read and want_write
\* are: neither in stopped and name_resolution; want_write alone in
\* connecting; in connected want_read, and want_write exactly when the write
\* buffer or preflight holds something; in mute want_read alone; and the
\* reactor owns a socket whenever either is true.
C35_Readiness ==
    /\ sock_state \in {"stopped", "name_resolution"}
       => ~want_read(Cur) /\ ~want_write(Cur)
    /\ sock_state = "connecting" => ~want_read(Cur) /\ want_write(Cur)
    /\ sock_state = "connected"
       => /\ want_read(Cur)
          /\ want_write(Cur) <=> (wbuf # <<>> \/ preflight_queue # <<>>)
    /\ sock_state = "mute" => want_read(Cur) /\ ~want_write(Cur)
    /\ (want_read(Cur) \/ want_write(Cur)) => socket

\* A write sent part of a packet: the rest waits in the write buffer, with
\* preflight empty, and the reactor wants to write.
C35_Witness ==
    /\ op.name = "write"
    /\ sock_state = "connected"
    /\ preflight_queue = <<>>
    /\ wbuf # <<>>
    /\ want_write(Cur)
    /\ socket
    /\ exc = "None"

\* A connection was closed while it had bytes to write.
C35_WitnessClosed ==
    /\ op.name = "read"
    /\ op.kind = "error"
    /\ sock_state = "stopped"
    /\ preflight_queue # <<>>
    /\ ~want_write(Cur)
    /\ ~socket

----------------------------------------------------------------------------
\* What a write hands to the socket is what the write buffer held, in order,
\* and then what the write encoded: the bytes the socket took and the bytes
\* left in the buffer begin with the bytes that were in the buffer.
FlushInOrder ==
    [][(op'.name = "write" /\ sock_state = "connected"
            /\ sock_state' # "stopped" /\ exc' = "None")
       => IsPrefix(wbuf, sent' \o wbuf')]_vars

\* The bytes the last operation handed to the socket, and behind them the
\* bytes it left in the write buffer.
HandedOrHeld == sent \o wbuf

\* C36: whatever the socket accepts of each write (nothing, a part, all),
\* the bytes it is handed on one connection are the encodings of the records
\* of preflight in queue order, each once: the packet of a ticket whose
\* bytes are in the write buffer is not encoded into it again, so that no
\* byte of a ticket's packet is handed to the socket or held in the buffer
\* twice.
C36_EncodedOnce ==
    \A i, j \in 1 .. Len(HandedOrHeld) :
        (i < j /\ HandedOrHeld[i].tk > 0) => HandedOrHeld[i] # HandedOrHeld[j]

----------------------------------------------------------------------------
\* The bytes a step encoded into the write buffer: what it handed to the
\* socket and what it left in the buffer, less what the buffer held before.
NewBytes ==
    SubSeq(sent' \o wbuf', Len(wbuf) + 1, Len(sent') + Len(wbuf'))

\* The step ends with the connection up and no exception.
StaysUp == sock_state' \in {"connected", "mute"} /\ exc' = "None"

\* The step opens the connection: SocketState becomes connected.
Establishes == sock_state \notin {"connected", "mute"} /\ StaysUp

Connect == Record("connect", NoPacketId, 0)

\* The queue the step encodes from: CONNECT and then preflight as __start
\* left it when the step opens the connection, preflight otherwise.
EncodedFrom ==
    IF Establishes
    THEN <<Connect>> \o (IF op'.name = "start" THEN start_preflight'
                         ELSE preflight_queue)
    ELSE preflight_queue

\* The encodings of the records of q, one behind the other.
EncodingOf(q) ==
    EncodeAll([preflight_queue |-> q, tickets |-> tickets'], 1, Len(q))

\* CONNECT is the first packet of a connection: the step that opens it
\* encodes CONNECT first, into an empty write buffer, and whatever it leaves
\* in flight it has launched itself.
ConnectFirst ==
    [][Establishes
       => /\ IsPrefix(EncodingOf(<<Connect>>), NewBytes)
          /\ wbuf = <<>>
          /\ \A i \in 1 .. Len(inflight_queue') :
                \E j \in 1 .. Len(launched') :
                    launched'[j].rec = inflight_queue'[i]]_vars

\* CONNECT is emitted once: no step encodes CONNECT on a connection that is
\* already up.
ConnectOnce ==
    [][(sock_state \in {"connected", "mute"} /\ StaysUp)
       => \A i \in 1 .. Len(NewBytes) : NewBytes[i].ptype # "connect"]_vars

\* The records of preflight follow in queue order, whatever MqttState is:
\* what a step encodes is the encoding of the first records of its queue.
InQueueOrder ==
    [][StaysUp
       => \E n \in 0 .. Len(EncodedFrom) :
             NewBytes = EncodingOf(SubSeq(EncodedFrom, 1, n))]_vars

\* Nothing follows DISCONNECT: a step encodes no record behind DISCONNECT,
\* and a step on a connection whose DISCONNECT is in the write buffer or
\* was launched encodes no other record.
NothingBehindDisconnect ==
    [][StaysUp
       => /\ \A i, j \in 1 .. Len(NewBytes) :
                (i < j /\ NewBytes[i].ptype = "disconnect")
                    => NewBytes[j].ptype = "disconnect"
          /\ (\/ sock_state = "mute"
              \/ \E i \in 1 .. Len(wbuf) : wbuf[i].ptype = "disconnect")
             => \A j \in 1 .. Len(NewBytes) :
                    NewBytes[j].ptype = "disconnect"]_vars

\* C37: on every connection the first packet handed to the socket is
\* CONNECT, encoded once, with the write buffer and in-flight empty; the
\* records already in preflight follow it in queue order without waiting for
\* CONNACK; and once DISCONNECT is encoded no later record of preflight is
\* handed to the socket on that connection.
C37_ConnectFirstDisconnectLast ==
    /\ ConnectFirst
    /\ ConnectOnce
    /\ InQueueOrder
    /\ NothingBehindDisconnect

----------------------------------------------------------------------------
\* The step is the callback of a cancelled name resolution future.
CancelledCallback ==
    op'.name = "on_name_resolution" /\ op'.kind = "cancelled"

\* A cancelled future's callback that runs while a resolution is pending,
\* that of a later start included, is a no-op.
CancelledWhileResolving ==
    [][(CancelledCallback /\ sock_state = "name_resolution")
       => NoEffect /\ name_resolution_future' = name_resolution_future]_vars

\* A stop() or terminate() that cancels the future of a resolver which runs
\* the callback inside cancel() returns.
CancelledInsideCancel ==
    [][(/\ op'.name \in {"stop", "terminate"}
        /\ name_resolution_future = "pending"
        /\ cancelled_callback = "inside")
       => exc' = "None" /\ fired' = <<"on_connect_fail">>]_vars

\* C38: the callback of a name resolution future that stop() or terminate()
\* has cancelled is a no-op whenever it runs: it changes no state of the
\* reactor, opens no socket, fires no callback and fails no assertion.
C38_CancelledFutureNoOp ==
    [][CancelledCallback
       => NoEffect /\ name_resolution_future' = name_resolution_future]_vars

----------------------------------------------------------------------------
\* The step is the keepalive-due deadline firing.
DueDeadlineFires == op'.name = "keepalive_due_timeout"

\* C39: whenever the keepalive-due deadline fires, the assertions of its
\* handler hold: SocketState is connected, MqttState is connected and no
\* PINGREQ is pending; this for every interleaving of received bytes (bytes
\* that complete no packet, packets other than PINGRESP while a PINGREQ is
\* pending) with the passage of time.
C39_DueTimeoutAssertions ==
    [][DueDeadlineFires
       => /\ sock_state = "connected"
          /\ mqtt_state = "connected"
          /\ ~pingreq_active
          /\ exc' = "None"]_vars

\* The keepalive-due deadline fires in SocketState connected only.
DueFiresConnected ==
    [][DueDeadlineFires => sock_state = "connected"]_vars

----------------------------------------------------------------------------
\* The records of preflight and in flight that reserve a packet id.
SendPathRecords ==
    SelectRecords(preflight_queue \o inflight_queue,
                  {"publish", "pubrel", "subscribe", "unsubscribe"})

\* C40: packet ids are unique while in use.  In every reachable state no two
\* send-path records of preflight and in flight carry the same packet id (a
\* PUBREL carries the id of its publish, which it has replaced); the ids in
\* flight are distinct, so that a record moved in flight finds its id free
\* there; and the allocator holds the id of every such record, so that the
\* release that ends the record is the first release of its id.
C40_PacketIdsUnique ==
    /\ \A i, j \in 1 .. Len(SendPathRecords) :
          i < j => SendPathRecords[i].packet_id # SendPathRecords[j].packet_id
    /\ \A i, j \in 1 .. Len(inflight_queue) :
          i < j => inflight_queue[i].packet_id # inflight_queue[j].packet_id
    /\ ReservedIds(preflight_queue \o inflight_queue)
          \subseteq send_path_packet_ids

\* A PUBREL is in flight with the id of the publish it replaced, while a
\* second publish is in flight with another id.
C40_Witness ==
    /\ Len(inflight_queue) = 2
    /\ \E i, j \in 1 .. 2 : /\ inflight_queue[i].ptype = "pubrel"
                            /\ inflight_queue[j].ptype = "publish"
                            /\ inflight_queue[i].tk # inflight_queue[j].tk
    /\ op.name = "write"
    /\ exc = "None"

====
